---------------------------- MODULE Spec2Model ----------------------------
(***************************************************************************)
(* A model of hoidn/autopytest: the capture wrapper (debug.py), the log    *)
(* store (logger.py), the codec (serializer.py), the identity mapping      *)
(* (functionmapping.py) and the replay engine (testing.py).                *)
(*                                                                         *)
(* Python values are tagged records.  Byte strings are sequences of        *)
(* numbers 0..255, text is a sequence of character codes, and a path is a  *)
(* sequence of one-character strings.  The codec is pickle protocol 4      *)
(* restricted to the values the model uses; it is computed byte for byte,  *)
(* so that a record holding the newline byte 10 breaks the line framing of *)
(* the log file exactly as it does in the program.                         *)
(***************************************************************************)
EXTENDS Naturals, Sequences, FiniteSets

(***************************************************************************)
(* Bounds of the model.                                                    *)
(***************************************************************************)
MaxInvocations == 3   \* wrapper invocations in one behaviour
MaxPaths == 2         \* length of the list handed to runTestSuite
MaxFaults == 1        \* I/O failures the environment injects
MaxEntries == 3       \* entries of the directory handed to searchLogDirectory
MaxWrappedRuns == 1   \* runs of the suite on sources that decorate their functions
MaxItems == 2         \* items of a tuple handed to serialize
MaxCalls == 2         \* calls of the wrapper each thread makes

(***************************************************************************)
(* Python values.                                                          *)
(***************************************************************************)
PyInt(n) == [tag |-> "int", n |-> n]
PyFloat(f) == [tag |-> "float", f |-> f]          \* f: the 8 bytes of the double
PyBytes(b) == [tag |-> "bytes", b |-> b]
PyStr(s) == [tag |-> "str", s |-> s]
PyTuple(items) == [tag |-> "tuple", items |-> items]
PyDict(keys, vals) == [tag |-> "dict", keys |-> keys, vals |-> vals]
PyNone == [tag |-> "none"]
PyLambda == [tag |-> "function"]                  \* a live callable: not picklable
PyExc(type, msg) == [tag |-> "exc", type |-> type, msg |-> msg]
Mark == [tag |-> "mark"]                          \* the unpickler's MARK object

\* Text used by the program, as character codes.
S_args == <<97, 114, 103, 115>>
S_kwargs == <<107, 119, 97, 114, 103, 115>>
S_result == <<114, 101, 115, 117, 108, 116>>
S_executionTime == <<101, 120, 101, 99, 117, 116, 105, 111, 110, 84, 105, 109, 101>>
S_ERROR == <<69, 82, 82, 79, 82, 58, 32>>        \* "ERROR: "
S_boom == <<98, 111, 111, 109>>
\* "Input data is not picklable"
S_notPicklable == <<73, 110, 112, 117, 116, 32, 100, 97, 116, 97, 32, 105, 115, 32,
                    110, 111, 116, 32, 112, 105, 99, 107, 108, 97, 98, 108, 101>>

RECURSIVE Flatten(_)
Flatten(ss) == IF ss = <<>> THEN <<>> ELSE Head(ss) \o Flatten(Tail(ss))

(***************************************************************************)
(* pickle.dumps, protocol 4.                                               *)
(***************************************************************************)
RECURSIVE Picklable(_)
Picklable(v) ==
    CASE v.tag = "function" -> FALSE
      [] v.tag = "tuple" -> \A i \in 1..Len(v.items) : Picklable(v.items[i])
      [] v.tag = "dict" -> /\ \A i \in 1..Len(v.keys) : Picklable(v.keys[i])
                           /\ \A i \in 1..Len(v.vals) : Picklable(v.vals[i])
      [] OTHER -> TRUE

RECURSIVE PickleBody(_)
PickleBody(v) ==
    CASE v.tag = "int" -> <<75, v.n>>                                  \* BININT1
      [] v.tag = "none" -> <<78>>                                      \* NONE
      [] v.tag = "float" -> <<71>> \o v.f                              \* BINFLOAT
      [] v.tag = "bytes" -> <<67, Len(v.b)>> \o v.b \o <<148>>         \* SHORT_BINBYTES, MEMOIZE
      [] v.tag = "str" -> <<140, Len(v.s)>> \o v.s \o <<148>>          \* SHORT_BINUNICODE, MEMOIZE
      [] v.tag = "tuple" ->
            IF Len(v.items) = 0 THEN <<41>>                            \* EMPTY_TUPLE
            ELSE Flatten([i \in 1..Len(v.items) |-> PickleBody(v.items[i])])
                 \o <<132 + Len(v.items), 148>>                        \* TUPLE1..TUPLE3, MEMOIZE
      [] v.tag = "dict" ->
            LET kv == Flatten([i \in 1..Len(v.keys) |->
                               PickleBody(v.keys[i]) \o PickleBody(v.vals[i])])
            IN  IF Len(v.keys) = 0 THEN <<125, 148>>                   \* EMPTY_DICT, MEMOIZE
                ELSE IF Len(v.keys) = 1 THEN <<125, 148>> \o kv \o <<115>>   \* SETITEM
                ELSE <<125, 148, 40>> \o kv \o <<117>>                 \* MARK ... SETITEMS

PickleDumps(v) ==
    LET body == PickleBody(v) \o <<46>>                                \* STOP
    IN  <<128, 4>>                                                     \* PROTO 4
        \o (IF Len(body) >= 4 THEN <<149, Len(body), 0, 0, 0, 0, 0, 0, 0>> ELSE <<>>)  \* FRAME
        \o body

(***************************************************************************)
(* pickle.loads: the unpickler's stack machine for the same opcodes.       *)
(* The result is [ok, val]; ok = FALSE stands for the exception raised.    *)
(***************************************************************************)
Bad == [ok |-> FALSE, val |-> PyNone]

RECURSIVE LastMark(_)
LastMark(st) == IF st = <<>> THEN 0
                ELSE IF st[Len(st)].tag = "mark" THEN Len(st)
                ELSE LastMark(SubSeq(st, 1, Len(st) - 1))

RECURSIVE Unpickle(_, _, _)
Unpickle(d, i, st) ==
    IF i > Len(d) THEN Bad                                             \* ran out of input
    ELSE LET op == d[i]
             n == Len(st)
             has(k) == i + k <= Len(d)
         IN
         CASE op = 128 -> IF has(1) /\ d[i + 1] <= 5 THEN Unpickle(d, i + 2, st) ELSE Bad
           [] op = 149 -> IF has(8) /\ i + 8 + d[i + 1] <= Len(d)
                                    /\ \A k \in 2..8 : d[i + k] = 0
                          THEN Unpickle(d, i + 9, st) ELSE Bad
           [] op = 75 -> IF has(1) THEN Unpickle(d, i + 2, Append(st, PyInt(d[i + 1]))) ELSE Bad
           [] op = 78 -> Unpickle(d, i + 1, Append(st, PyNone))
           [] op = 71 -> IF has(8)
                         THEN Unpickle(d, i + 9, Append(st, PyFloat(SubSeq(d, i + 1, i + 8))))
                         ELSE Bad
           [] op = 67 -> IF has(1) /\ has(1 + d[i + 1])
                         THEN Unpickle(d, i + 2 + d[i + 1],
                                       Append(st, PyBytes(SubSeq(d, i + 2, i + 1 + d[i + 1]))))
                         ELSE Bad
           [] op = 140 -> IF has(1) /\ has(1 + d[i + 1])
                          THEN Unpickle(d, i + 2 + d[i + 1],
                                        Append(st, PyStr(SubSeq(d, i + 2, i + 1 + d[i + 1]))))
                          ELSE Bad
           [] op = 148 -> IF n >= 1 /\ st[n].tag # "mark" THEN Unpickle(d, i + 1, st) ELSE Bad
           [] op = 41 -> Unpickle(d, i + 1, Append(st, PyTuple(<<>>)))
           [] op \in {133, 134, 135} ->
                 LET k == op - 132
                 IN  IF n >= k /\ \A j \in (n - k + 1)..n : st[j].tag # "mark"
                     THEN Unpickle(d, i + 1, Append(SubSeq(st, 1, n - k),
                                                    PyTuple(SubSeq(st, n - k + 1, n))))
                     ELSE Bad
           [] op = 125 -> Unpickle(d, i + 1, Append(st, PyDict(<<>>, <<>>)))
           [] op = 40 -> Unpickle(d, i + 1, Append(st, Mark))
           [] op = 115 ->
                 IF n >= 3 /\ st[n - 2].tag = "dict" /\ st[n - 1].tag # "mark" /\ st[n].tag # "mark"
                 THEN Unpickle(d, i + 1,
                               Append(SubSeq(st, 1, n - 3),
                                      PyDict(Append(st[n - 2].keys, st[n - 1]),
                                             Append(st[n - 2].vals, st[n]))))
                 ELSE Bad
           [] op = 117 ->
                 LET m == LastMark(st)
                     cnt == n - m
                 IN  IF m >= 2 /\ st[m - 1].tag = "dict" /\ cnt % 2 = 0
                     THEN Unpickle(d, i + 1,
                                   Append(SubSeq(st, 1, m - 2),
                                          PyDict(st[m - 1].keys
                                                   \o [j \in 1..(cnt \div 2) |-> st[m + 2 * j - 1]],
                                                 st[m - 1].vals
                                                   \o [j \in 1..(cnt \div 2) |-> st[m + 2 * j]])))
                     ELSE Bad
           [] op = 46 -> IF n >= 1 /\ st[n].tag # "mark"
                         THEN [ok |-> TRUE, val |-> st[n]] ELSE Bad
           [] OTHER -> Bad                                             \* invalid load key

PickleLoads(d) == Unpickle(d, 1, <<>>)


(***************************************************************************)
(* Serializer.  The result is [ok, val]; ok = FALSE stands for the         *)
(* ValueError the method raises.                                           *)
(***************************************************************************)
serialize(input_data) ==
    IF Picklable(input_data) THEN [ok |-> TRUE, val |-> PickleDumps(input_data)]
    ELSE [ok |-> FALSE, val |-> <<>>]

\* deserialize, had it dropped the newline bytes of its input.
deserializeLine(serialized_data) == PickleLoads(SelectSeq(serialized_data, LAMBDA b : b # 10))

deserialize(serialized_data) == PickleLoads(serialized_data)

(***************************************************************************)
(* Logger.  A file is [exists, data]; io = "fail" is open() raising an     *)
(* OSError, which every append catches and prints.  exists = FALSE is a    *)
(* file that open() cannot read: missing, or not readable.                 *)
(***************************************************************************)
NoFile == [exists |-> FALSE, data |-> <<>>]

\* open(log_file_path, 'wb') and write, in the place of 'ab'.
WriteBytes(file, bytes) == [exists |-> TRUE, data |-> bytes]

\* open(log_file_path, 'ab') and write: the file is created when it is not
\* there, and the bytes go to its end.
AppendBytes(file, bytes) == [exists |-> TRUE, data |-> file.data \o bytes]

CallRecord(args, kwargs) == PyDict(<<PyStr(S_args), PyStr(S_kwargs)>>, <<args, kwargs>>)

ReturnRecord(result, executionTime) ==
    PyDict(<<PyStr(S_result), PyStr(S_executionTime)>>, <<result, PyFloat(executionTime)>>)

ErrorLine(error) == S_ERROR \o error \o <<10>>

\* logCall, had it put the record off.
logCallDeferred(file, args, kwargs, io) == file

logCall(file, args, kwargs, io) ==
    LET s == serialize(CallRecord(args, kwargs))
    IN  IF io = "fail" THEN file
        ELSE IF s.ok THEN AppendBytes(file, s.val \o <<10>>)
        ELSE AppendBytes(file, <<>>)

\* logReturn, had it written the record at the head of the file.
logReturnAhead(file, result, executionTime, io) ==
    IF io = "fail" THEN file
    ELSE [exists |-> TRUE,
          data |-> serialize(ReturnRecord(result, executionTime)).val \o <<10>> \o file.data]

logReturn(file, result, executionTime, io) ==
    LET s == serialize(ReturnRecord(result, executionTime))
    IN  IF io = "fail" THEN file
        ELSE IF s.ok THEN AppendBytes(file, s.val \o <<10>>)
        ELSE AppendBytes(file, <<>>)

\* logError that appends nothing.
logErrorDropped(file, error, io) == file

logError(file, error, io) ==
    IF io = "fail" THEN file ELSE AppendBytes(file, ErrorLine(error))

\* Iterating a binary file: each line ends with its newline, the last may not.
RECURSIVE FirstNewline(_, _)
FirstNewline(data, i) ==
    IF i > Len(data) THEN 0 ELSE IF data[i] = 10 THEN i ELSE FirstNewline(data, i + 1)

RECURSIVE FileLines(_)
FileLines(data) ==
    IF data = <<>> THEN <<>>
    ELSE LET k == FirstNewline(data, 1)
         IN  IF k = 0 THEN <<data>>
             ELSE <<SubSeq(data, 1, k)>> \o FileLines(SubSeq(data, k + 1, Len(data)))

\* bytes.strip(): ASCII whitespace off both ends.
Whitespace == {9, 10, 11, 12, 13, 32}

RECURSIVE LStrip(_)
LStrip(b) == IF b # <<>> /\ Head(b) \in Whitespace THEN LStrip(Tail(b)) ELSE b

RECURSIVE RStrip(_)
RStrip(b) == IF b # <<>> /\ b[Len(b)] \in Whitespace THEN RStrip(SubSeq(b, 1, Len(b) - 1)) ELSE b

Strip(b) == RStrip(LStrip(b))

\* The loop of loadLog, had it passed over a line that does not decode.
RECURSIVE DecodeLinesSkipping(_)
DecodeLinesSkipping(lines) ==
    IF lines = <<>> THEN <<>>
    ELSE LET r == deserialize(Strip(Head(lines)))
         IN  IF r.ok THEN <<r.val>> \o DecodeLinesSkipping(Tail(lines))
             ELSE DecodeLinesSkipping(Tail(lines))

\* The loop of loadLog: the first line that does not decode ends the read.
RECURSIVE DecodeLines(_)
DecodeLines(lines) ==
    IF lines = <<>> THEN <<>>
    ELSE LET r == deserialize(Strip(Head(lines)))
         IN  IF r.ok THEN <<r.val>> \o DecodeLines(Tail(lines)) ELSE <<>>

loadLog(file) == IF file.exists THEN DecodeLines(FileLines(file.data)) ELSE <<>>

\* open() returning a handle on the file, and the handle's close().
Opened(open_handles, log_file_path) == open_handles \cup {log_file_path}

Closed(open_handles, log_file_path) == open_handles \ {log_file_path}

\* open() and close() around the body without the with statement: the
\* close() is not reached when the body raises.
WithOpenUnguarded(open_handles, log_file_path, io, raised) ==
    IF io = "fail" THEN open_handles
    ELSE IF raised THEN Opened(open_handles, log_file_path)
    ELSE Closed(Opened(open_handles, log_file_path), log_file_path)

\* with open(log_file_path, ...) as log_file: the handles that are open
\* after the statement.  io = "fail" is open() raising, with no handle made;
\* raised is the body raising (a record that does not serialize, a line that
\* does not decode): the handle's __exit__ closes it either way.
WithOpen(open_handles, log_file_path, io, raised) ==
    IF io = "fail" THEN open_handles
    ELSE Closed(Opened(open_handles, log_file_path), log_file_path)

\* The body of loadLog's with statement raises: a line does not decode.
DecodeRaises(file) == Len(loadLog(file)) < Len(FileLines(file.data))

\* The handles after loadLog (lines 136-141); a file that is not there or
\* cannot be read makes open() raise.
HandlesAfterLoad(open_handles, file, log_file_path) ==
    WithOpen(open_handles, log_file_path, IF file.exists THEN "ok" ELSE "fail",
             DecodeRaises(file))

\* file_name.endswith('.log'), had it been '.log' in file_name.
contains(s, suffix) == \E i \in 1..Len(s) : i + Len(suffix) - 1 <= Len(s) /\ SubSeq(s, i, i + Len(suffix) - 1) = suffix

\* str.endswith(suffix).
endswith(s, suffix) ==
    /\ Len(suffix) <= Len(s)
    /\ SubSeq(s, Len(s) - Len(suffix) + 1, Len(s)) = suffix

\* os.path.join(log_directory, file_name) for a name os.listdir gives.
join(directory, file_name) ==
    IF directory = <<>> \/ directory[Len(directory)] = "/" THEN directory \o file_name
    ELSE directory \o <<"/">> \o file_name

\* The loop of lines 163-165 over the names os.listdir gave.
RECURSIVE LogFilesOf(_, _)
LogFilesOf(directory, names) ==
    IF names = <<>> THEN <<>>
    ELSE (IF endswith(Head(names), <<".", "l", "o", "g">>)
          THEN <<join(directory, Head(names))>> ELSE <<>>)
         \o LogFilesOf(directory, Tail(names))

\* listing is what os.listdir does: [ok, names]; ok = FALSE is the OSError
\* of a directory that is missing or cannot be read, which leaves log_files
\* empty.
searchLogDirectory(directory, listing) ==
    IF listing.ok THEN LogFilesOf(directory, listing.names) ELSE <<>>


(***************************************************************************)
(* The callables the program is applied to.  They are inputs of the        *)
(* program: double is test_debug.py's test_function (x * 2), failer its    *)
(* raising test_function, add is the x + y of metatesting.py, ident        *)
(* returns its argument and is defined in the script that is run           *)
(* (__module__ = "__main__").  An outcome is [kind, val], kind "return" or *)
(* "raise"; the faults are instances of Exception, the only ones the       *)
(* wrapper's handler is written for.                                       *)
(***************************************************************************)
FuncIds == {"double", "failer", "ident"}

\* maker returns a function of its own making (lambda: x): a result that
\* pickle cannot dump, for an argument that it can.
ResultFuncIds == {"double", "maker"}

\* countdown calls itself by its name, which its module binds to what
\* decorate returned: def countdown(n): return 0 if n == 0 else countdown(n - 1).
RecursiveFuncIds == {"countdown"}

AllFuncIds == FuncIds \cup ResultFuncIds \cup RecursiveFuncIds

C_m == <<"m">>
C_pkg == <<"p", "k", "g">>
C_root == <<"r", "o", "o", "t">>
C_main == <<"_", "_", "m", "a", "i", "n", "_", "_">>
C_double == <<"d", "o", "u", "b", "l", "e">>
C_failer == <<"f", "a", "i", "l", "e", "r">>
C_ident == <<"i", "d", "e", "n", "t">>
C_maker == <<"m", "a", "k", "e", "r">>
C_countdown == <<"c", "o", "u", "n", "t", "d", "o", "w", "n">>
C_add == <<"a", "d", "d">>
C_log_add == <<"l", "o", "g", "_", "a", "d", "d">>
C_sample_function == <<"s", "a", "m", "p", "l", "e", "_", "f", "u", "n", "c", "t", "i", "o", "n">>
C_another_function == <<"a", "n", "o", "t", "h", "e", "r", "_", "f", "u", "n", "c", "t", "i", "o", "n">>
C_logs == <<"l", "o", "g", "s">>
C_dotlog == <<".", "l", "o", "g">>

FuncModule(f) ==                                           \* func.__module__
    CASE f = "ident" -> C_main
      [] f \in {"add", "log_add"} -> C_pkg
      [] OTHER -> C_m

FuncName(f) ==                                             \* func.__name__
    CASE f = "double" -> C_double
      [] f = "failer" -> C_failer
      [] f = "ident" -> C_ident
      [] f = "maker" -> C_maker
      [] f = "countdown" -> C_countdown
      [] f = "add" -> C_add
      [] f = "log_add" -> C_log_add

Return(v) == [kind |-> "return", val |-> v]
Raise(type, msg) == [kind |-> "raise", val |-> PyExc(type, msg)]
NoOutcome == [kind |-> "none", val |-> PyNone]

\* Parameter names, as character codes.
Params(fn) ==
    CASE fn \in {"double", "double_v2", "failer", "ident", "maker"} -> <<<<120>>>>   \* (x)
      [] fn \in {"add", "add_v2", "log_add"} -> <<<<97>>, <<98>>>>               \* (a, b)
      [] fn = "countdown" -> <<<<110>>>>                                         \* (n)
      [] OTHER -> <<>>                                                           \* ()

KwIndex(kwargs, name) ==
    LET hits == {i \in 1..Len(kwargs.keys) : kwargs.keys[i] = PyStr(name)}
    IN  IF hits = {} THEN 0 ELSE CHOOSE i \in hits : TRUE

\* Python's binding of a call's arguments to the parameters; ok = FALSE is
\* the TypeError of a call that does not fit the signature.
BindTo(ps, args, kwargs) ==
    IF /\ Len(args) <= Len(ps)
       /\ \A i \in 1..Len(kwargs.keys) :
             /\ kwargs.keys[i].tag = "str"
             /\ \E j \in (Len(args) + 1)..Len(ps) : ps[j] = kwargs.keys[i].s
       /\ \A j \in (Len(args) + 1)..Len(ps) : KwIndex(kwargs, ps[j]) # 0
    THEN [ok |-> TRUE,
          vals |-> [j \in 1..Len(ps) |-> IF j <= Len(args) THEN args[j]
                                         ELSE kwargs.vals[KwIndex(kwargs, ps[j])]]]
    ELSE [ok |-> FALSE, vals |-> <<>>]

Bind(fn, args, kwargs) == BindTo(Params(fn), args, kwargs)

S_sample == <<115, 97, 109, 112, 108, 101, 32, 102, 117, 110, 99, 116, 105, 111, 110, 32, 101, 120, 101, 99, 117, 116, 101, 100>>
S_another == <<97, 110, 111, 116, 104, 101, 114, 32, 102, 117, 110, 99, 116, 105, 111, 110, 32, 101, 120, 101, 99, 117, 116, 101, 100>>

\* The callable's own behaviour on bound arguments.  TypeError messages of
\* the interpreter are left empty.
Body(fn, x) ==
    CASE fn = "double" -> IF x[1].tag = "int" THEN Return(PyInt(2 * x[1].n))
                          ELSE Raise("TypeError", <<>>)
      [] fn = "double_v2" -> IF x[1].tag = "int" THEN Return(PyInt(2 * x[1].n + 1))
                             ELSE Raise("TypeError", <<>>)
      [] fn = "failer" -> Raise("ValueError", S_boom)
      [] fn = "ident" -> Return(x[1])
      [] fn = "maker" -> Return(PyLambda)
      [] fn = "countdown" -> IF x[1].tag = "int" THEN Return(PyInt(0))
                             ELSE Raise("TypeError", <<>>)
      [] fn \in {"add", "log_add"} -> IF x[1].tag = "int" /\ x[2].tag = "int"
                       THEN Return(PyInt(x[1].n + x[2].n)) ELSE Raise("TypeError", <<>>)
      [] fn = "add_v2" -> IF x[1].tag = "int" /\ x[2].tag = "int"
                          THEN Return(PyInt(x[1].n + x[2].n + 1)) ELSE Raise("TypeError", <<>>)
      [] fn = "sample_function" -> Return(PyStr(S_sample))
      [] fn = "another_function" -> Return(PyStr(S_another))

ApplyBound(fn, b) == IF b.ok THEN Body(fn, b.vals) ELSE Raise("TypeError", <<>>)

\* The body of fn calls fn's name on the way: countdown(n) for n > 0 calls
\* countdown(n - 1) and returns what that call returns (a fault of the call
\* goes through it).
Recurses(fn, args) ==
    fn \in RecursiveFuncIds /\ Len(args) = 1 /\ args[1].tag = "int" /\ args[1].n > 0

NestedArgs(fn, args) == <<PyInt(args[1].n - 1)>>

Resumed(fn, nested) == nested

Apply(fn, args, kwargs) == ApplyBound(fn, Bind(fn, args, kwargs))

\* The argument lists the model calls each wrapper with (kwargs are empty).
\* double(5) returns 10, whose pickle holds the newline byte.
ArgChoices(f) ==
    CASE f = "double" -> <<<<PyInt(1)>>, <<PyInt(5)>>>>
      [] f = "failer" -> <<<<PyInt(1)>>>>
      [] f = "ident" -> <<<<PyInt(1)>>, <<PyLambda>>>>
      [] f = "maker" -> <<<<PyInt(1)>>>>
      [] f = "countdown" -> <<<<PyInt(0)>>, <<PyInt(1)>>, <<PyInt(2)>>>>

\* time.time() - start_time as the 8 bytes of its double: 2.1457672119140625e-06,
\* and 2.15042382478714e-06, whose third byte is the newline byte.
ExecTimes == {<<62, 194, 0, 0, 0, 0, 0, 0>>, <<62, 194, 10, 0, 0, 0, 0, 0>>}

(***************************************************************************)
(* FunctionMapping.                                                        *)
(***************************************************************************)
log_directory == C_logs

get_log_file_path(f) ==
    log_directory \o <<"/">> \o FuncModule(f) \o <<".">> \o FuncName(f) \o C_dotlog

IsPrefixAt(s, i, pat) == /\ i + Len(pat) - 1 <= Len(s)
                         /\ SubSeq(s, i, i + Len(pat) - 1) = pat

\* str.replace(pat, ''): every occurrence, left to right, without overlap.
RECURSIVE RemoveFrom(_, _, _)
RemoveFrom(s, i, pat) ==
    IF i > Len(s) THEN <<>>
    ELSE IF IsPrefixAt(s, i, pat) THEN RemoveFrom(s, i + Len(pat), pat)
    ELSE <<s[i]>> \o RemoveFrom(s, i + 1, pat)

RemoveAll(s, pat) == RemoveFrom(s, 1, pat)

\* str.split(sep) for a one-character separator.
RECURSIVE SplitFrom(_, _, _, _)
SplitFrom(s, i, sep, cur) ==
    IF i > Len(s) THEN <<cur>>
    ELSE IF s[i] = sep THEN <<cur>> \o SplitFrom(s, i + 1, sep, <<>>)
    ELSE SplitFrom(s, i + 1, sep, Append(cur, s[i]))

Split(s, sep) == SplitFrom(s, 1, sep, <<>>)

None == "None"

\* globals() of functionmapping.py, where load_function looks "__main__" up.
FunctionMappingGlobals(func_name) ==
    CASE func_name = C_sample_function -> "sample_function"
      [] func_name = C_another_function -> "another_function"
      [] OTHER -> None

\* The sources at replay time: unchanged (v1), with double and add changed
\* (v2), and with package pkg removed and module m raising while it loads
\* (v3).
Versions == {"v1", "v2", "v3"}

\* The same, and the sources unchanged with add decorated by debug in its
\* module (v4).
ReplayVersions == Versions \cup {"v4"}

\* The modules importlib.util.find_spec finds.
ImportableModules(version) == IF version = "v3" THEN {C_m} ELSE {C_m, C_pkg}

\* spec.loader.exec_module(module) raises.
ExecFails(version, module_name) == version = "v3" /\ module_name = C_m

ModuleAttr(version, module_name, func_name) ==
    CASE module_name = C_m /\ func_name = C_double ->
            IF version \in {"v1", "v4"} THEN "double" ELSE "double_v2"
      [] module_name = C_m /\ func_name = C_failer -> "failer"
      [] module_name = C_pkg /\ func_name = C_add ->
            IF version \in {"v1", "v4"} THEN "add" ELSE "add_v2"
      [] module_name = C_pkg /\ func_name = C_log_add -> "log_add"
      [] OTHER -> None

\* The module's attribute is what Debug.decorate returned for the function
\* when the module was executed with the flag on: a wrapper with a counter
\* of its own.
Decorated(version, func) == version = "v4" /\ func = "add"

\* The names the parse yields: [ok, module_name, func_name]; ok = FALSE is
\* the exception of an unpacking that does not fit, or no argument given.
NoNames == [ok |-> FALSE, module_name |-> <<>>, func_name |-> <<>>]

\* module_name, func_name = names: exactly two parts, or a ValueError.
UnpackTwo(names) ==
    IF Len(names) = 2
    THEN [ok |-> TRUE, module_name |-> names[1], func_name |-> names[2]]
    ELSE NoNames

\* parts[0], parts[1]: at least two parts, or an IndexError.
FirstTwo(parts) ==
    IF Len(parts) >= 2
    THEN [ok |-> TRUE, module_name |-> parts[1], func_name |-> parts[2]]
    ELSE NoNames

LastPart(parts) == parts[Len(parts)]

ParseNames(log_file_path, module_path) ==
    IF log_file_path # <<>>
    THEN UnpackTwo(Split(LastPart(Split(RemoveAll(log_file_path, C_dotlog), "/")), "."))
    ELSE IF module_path # <<>> THEN FirstTwo(Split(module_path, "."))
    ELSE NoNames

\* [func, loaded]: the callable or None, and the module name the call put in
\* sys.modules (<<>> when it put none).
\* Lookup, had the except of line 69 not been there for exec_module.
LookupUnguarded(p, version) ==
    IF ~p.ok THEN [func |-> None, loaded |-> <<>>]
    ELSE IF p.module_name = C_main
    THEN [func |-> FunctionMappingGlobals(p.func_name), loaded |-> <<>>]
    ELSE IF p.module_name \notin ImportableModules(version)
    THEN [func |-> None, loaded |-> <<>>]
    ELSE [func |-> ModuleAttr(version, p.module_name, p.func_name), loaded |-> p.module_name]

Lookup(p, version) ==
    IF ~p.ok THEN [func |-> None, loaded |-> <<>>]
    ELSE IF p.module_name = C_main
    THEN [func |-> FunctionMappingGlobals(p.func_name), loaded |-> <<>>]
    ELSE IF p.module_name \notin ImportableModules(version)
    THEN [func |-> None, loaded |-> <<>>]
    ELSE IF ExecFails(version, p.module_name)
    THEN [func |-> None, loaded |-> p.module_name]
    ELSE [func |-> ModuleAttr(version, p.module_name, p.func_name), loaded |-> p.module_name]

load_function(log_file_path, module_path, version) ==
    Lookup(ParseNames(log_file_path, module_path), version)


(***************************************************************************)
(* Testing: the replay engine.                                             *)
(***************************************************************************)
\* len(v): ok = FALSE is the TypeError of a value without a length.
PyLen(v) ==
    CASE v.tag = "tuple" -> [ok |-> TRUE, n |-> Len(v.items)]
      [] v.tag = "dict" -> [ok |-> TRUE, n |-> Len(v.keys)]
      [] v.tag = "bytes" -> [ok |-> TRUE, n |-> Len(v.b)]
      [] v.tag = "str" -> [ok |-> TRUE, n |-> Len(v.s)]
      [] OTHER -> [ok |-> FALSE, n |-> 0]

\* v[k] for k = 0, 1: [exc, val], exc = "" when the subscript succeeds.
got(x) == [exc |-> "", val |-> x]
err(e) == [exc |-> e, val |-> PyNone]

Subscript(v, k) ==
        CASE v.tag = "tuple" -> IF k < Len(v.items) THEN got(v.items[k + 1]) ELSE err("IndexError")
          [] v.tag = "bytes" -> IF k < Len(v.b) THEN got(PyInt(v.b[k + 1])) ELSE err("IndexError")
          [] v.tag = "str" -> IF k < Len(v.s) THEN got(PyStr(<<v.s[k + 1]>>)) ELSE err("IndexError")
          [] v.tag = "dict" ->
                LET hits == {i \in 1..Len(v.keys) : v.keys[i] = PyInt(k)}
                IN  IF hits = {} THEN err("KeyError") ELSE got(v.vals[CHOOSE i \in hits : TRUE])
          [] OTHER -> err("TypeError")

\* *v in a call: the items of an iterable; ok = FALSE is the TypeError.
StarArgs(v) ==
    CASE v.tag = "tuple" -> [ok |-> TRUE, items |-> v.items]
      [] v.tag = "bytes" -> [ok |-> TRUE, items |-> [i \in 1..Len(v.b) |-> PyInt(v.b[i])]]
      [] v.tag = "str" -> [ok |-> TRUE, items |-> [i \in 1..Len(v.s) |-> PyStr(<<v.s[i]>>)]]
      [] v.tag = "dict" -> [ok |-> TRUE, items |-> v.keys]
      [] OTHER -> [ok |-> FALSE, items |-> <<>>]

\* **v in a call: a mapping with string keys.
IsKwargs(v) == v.tag = "dict" /\ \A i \in 1..Len(v.keys) : v.keys[i].tag = "str"

\* actual_output == expected_output: structural, a dict whatever its order.
PyEq(a, b) ==
    /\ a.tag = b.tag
    /\ IF a.tag = "dict"
       THEN /\ Len(a.keys) = Len(b.keys)
            /\ \A i \in 1..Len(a.keys) : \E j \in 1..Len(b.keys) :
                  a.keys[i] = b.keys[j] /\ a.vals[i] = b.vals[j]
       ELSE a = b

EmptyKwargs == PyDict(<<>>, <<>>)

\* The call testCallable makes for the loaded inputs: an outcome, or the
\* fault of building the call.
\* func(*a, **k), func(*a) and func() of lines 26, 28 and 30.
CallBoth(func, a, k) ==
    IF a.exc # "" THEN Raise(a.exc, <<>>)
    ELSE IF k.exc # "" THEN Raise(k.exc, <<>>)
    ELSE IF ~StarArgs(a.val).ok \/ ~IsKwargs(k.val) THEN Raise("TypeError", <<>>)
    ELSE Apply(func, StarArgs(a.val).items, k.val)

CallArgs(func, a) ==
    IF a.exc # "" THEN Raise(a.exc, <<>>)
    ELSE IF ~StarArgs(a.val).ok THEN Raise("TypeError", <<>>)
    ELSE Apply(func, StarArgs(a.val).items, EmptyKwargs)

CallByLen(n, inputs, func) ==
    IF ~n.ok THEN Raise("TypeError", <<>>)
    ELSE IF n.n = 2 THEN CallBoth(func, Subscript(inputs, 0), Subscript(inputs, 1))
    ELSE IF n.n = 1 THEN CallArgs(func, Subscript(inputs, 0))
    ELSE Apply(func, <<>>, EmptyKwargs)

ReplayCall(inputs, func) == CallByLen(PyLen(inputs), inputs, func)

\* The arguments func is called with at line 26, 28 or 30: [made, args,
\* kwargs], made = FALSE when a fault comes before the call.
NoCall == [made |-> FALSE, args |-> <<>>, kwargs |-> EmptyKwargs]

CalledBoth(a, k) ==
    IF a.exc = "" /\ k.exc = "" /\ StarArgs(a.val).ok /\ IsKwargs(k.val)
    THEN [made |-> TRUE, args |-> StarArgs(a.val).items, kwargs |-> k.val]
    ELSE NoCall

CalledArgs(a) ==
    IF a.exc = "" /\ StarArgs(a.val).ok
    THEN [made |-> TRUE, args |-> StarArgs(a.val).items, kwargs |-> EmptyKwargs]
    ELSE NoCall

CalledByLen(n, inputs) ==
    IF ~n.ok THEN NoCall
    ELSE IF n.n = 2 THEN CalledBoth(Subscript(inputs, 0), Subscript(inputs, 1))
    ELSE IF n.n = 1 THEN CalledArgs(Subscript(inputs, 0))
    ELSE [made |-> TRUE, args |-> <<>>, kwargs |-> EmptyKwargs]

Called(logged_data) ==
    IF Len(logged_data) # 2 THEN NoCall
    ELSE CalledByLen(PyLen(logged_data[1]), logged_data[1])

\* return actual_output == expected_output, or the fault of the call.
Compare(out, expected_output) ==
    IF out.kind = "raise" THEN [kind |-> "raise", exc |-> out.val.type]
    ELSE IF PyEq(out.val, expected_output) THEN [kind |-> "pass", exc |-> ""]
    ELSE [kind |-> "fail", exc |-> ""]

\* inputs, expected_output = logged_data: exactly two records, or a ValueError.
TestLogged(logged_data, func) ==
    IF Len(logged_data) # 2 THEN [kind |-> "raise", exc |-> "ValueError"]
    ELSE Compare(ReplayCall(logged_data[1], func), logged_data[2])

\* [kind, exc]: kind "pass", "fail" or "raise" (exc is the fault's type).
testCallable(file, func) == TestLogged(loadLog(file), func)

\* [kind, func, loaded]: kind "raise" (the unpacking's ValueError), "skip"
\* (None is returned) or "case".
CaseOf(logged_data, r) ==
    IF Len(logged_data) # 2 THEN [kind |-> "raise", func |-> None, loaded |-> <<>>]
    ELSE IF r.func = None THEN [kind |-> "skip", func |-> None, loaded |-> r.loaded]
    ELSE [kind |-> "case", func |-> r.func, loaded |-> r.loaded]

createTestCase(file, log_file_path, version) ==
    CaseOf(loadLog(file), load_function(log_file_path, <<>>, version))

(***************************************************************************)
(* The state.                                                              *)
(***************************************************************************)
VARIABLES
    debug,        \* Configuration.debug
    wrappers,     \* per callable: what decorate returned, and the wrapper's counter
    dirs,         \* TRUE when the log directory exists
    fs,           \* the log files, by path
    inv,          \* the wrapper invocation in progress, or the last one finished
    invocations,  \* wrapper invocations so far
    faults,       \* I/O failures injected so far
    live,         \* the version of module m that replay imports
    sys_modules,  \* the module names load_function has put in sys.modules
    suite,        \* the activation of runTestSuite
    search,       \* the activation of searchLogDirectory
    codec,        \* a value on its way through serialize and deserialize
    handles,      \* the paths of the log files a handle is open on
    stack,        \* the wrapper invocations suspended in a call of func
    threads       \* per thread: its position in a call of the wrapper

vars == <<debug, wrappers, dirs, fs, inv, invocations, faults, live, sys_modules, suite,
          search, codec, handles, stack, threads>>

Budget == 2

\* root/pkg.add.log: a log file that is there before the capture session.
AddPath == C_root \o <<"/">> \o FuncModule("add") \o <<".">> \o FuncName("add") \o C_dotlog

\* root/pkg.log_add.log: the same for a function whose name begins with "log".
LogAddPath ==
    C_root \o <<"/">> \o FuncModule("log_add") \o <<".">> \o FuncName("log_add") \o C_dotlog

FixturePaths == {AddPath, LogAddPath}

FilePaths == {get_log_file_path(f) : f \in FuncIds} \cup FixturePaths

\* logs/pkg.add.log: such a file in the directory the wrappers write to.
LogsAddPath == get_log_file_path("add")

\* root/pkg.sub.add.log: such a file for a function of a module in a package
\* (func.__module__ is "pkg.sub").
C_sub == <<"s", "u", "b">>

SubAddPath == C_root \o <<"/">> \o C_pkg \o <<".">> \o C_sub \o <<".">> \o C_add \o C_dotlog

ReplayPaths == FilePaths \cup {LogsAddPath, SubAddPath}

\* Every path of the model.
StorePaths == ReplayPaths \cup {get_log_file_path(f) : f \in AllFuncIds}

\* A log file in the shape testCallable indexes: the inputs as a pair
\* (args, kwargs), then the expected output.
PairFile ==
    [exists |-> TRUE,
     data |-> PickleDumps(PyTuple(<<PyTuple(<<PyInt(2), PyInt(3)>>), EmptyKwargs>>)) \o <<10>>
              \o PickleDumps(PyInt(5)) \o <<10>>]

IdleInv == [pc |-> "idle", f |-> "", n |-> 0, args |-> <<>>, captured |-> FALSE,
            fcalls |-> 0, observed |-> NoOutcome, before |-> NoFile, log |-> <<>>]

IdleSuite == [pc |-> "idle", paths |-> <<>>, i |-> 0, passed |-> 0, failed |-> 0,
              skipped |-> 0, verdicts |-> <<>>, exc |-> "", runs |-> 0]

\* No call of searchLogDirectory.
IdleSearch == [pc |-> "idle", log_directory |-> <<>>, listing |-> [ok |-> FALSE, names |-> <<>>],
               log_files |-> <<>>]

\* The threads that call a wrapper, and a thread that is not in a call:
\* count is the value it read at line 14, handed the values increment
\* returned to it, one per call.
Threads == {"t1", "t2"}

IdleThread == [pc |-> "idle", count |-> 0, handed |-> <<>>]

\* The objects as debug.py builds them, and the files that are there.
Constructed ==
    /\ handles = {}
    /\ stack = <<>>
    /\ threads = [t \in Threads |-> IdleThread]
    /\ debug = TRUE
    /\ wrappers = [f \in AllFuncIds |-> [kind |-> "none", count |-> 0]]
    /\ fs = [p \in StorePaths |->
                IF p \in FixturePaths \cup {LogsAddPath, SubAddPath} THEN PairFile ELSE NoFile]
    /\ dirs = FALSE
    /\ inv = IdleInv
    /\ invocations = 0
    /\ faults = 0
    /\ live = "v1"
    /\ sys_modules = {}
    /\ suite = IdleSuite

\* No value handed to the Serializer.
IdleCodec == [pc |-> "idle", input_data |-> PyNone, serialized_data |-> <<>>,
              output |-> PyNone]

Init == Constructed /\ search = IdleSearch /\ codec = IdleCodec


(***************************************************************************)
(* Configuration and Debug.decorate.                                       *)
(***************************************************************************)
Quiet == inv.pc \notin {"exec", "resumed"} /\ stack = <<>> /\ suite.pc = "idle"

\* The assignment, had the results of decorate looked the flag up at each
\* call: those made before it turn into what the new flag stands for.
SetDebugFlagLive(b) ==
    /\ Quiet
    /\ b # debug
    /\ debug' = b
    /\ wrappers' = [f \in AllFuncIds |->
                       IF wrappers[f].kind = "none" THEN wrappers[f]
                       ELSE [wrappers[f] EXCEPT !.kind = IF b THEN "wrapper" ELSE "plain"]]
    /\ UNCHANGED <<dirs, fs, inv, invocations, faults, live, sys_modules, suite, search, codec,
                   handles, stack, threads>>

\* configuration.debug = b, as test_debug.py assigns it.
SetDebugFlag(b) ==
    /\ Quiet
    /\ b # debug
    /\ debug' = b
    /\ UNCHANGED <<wrappers, dirs, fs, inv, invocations, faults, live, sys_modules, suite, search, codec,
                   handles, stack, threads>>

\* decorate, had it wrapped func whatever the flag is.
DecorateResultWrapping(flag) == [kind |-> "wrapper", count |-> 0]

\* What decorate returns: func itself, or a wrapper with a fresh counter.
DecorateResult(flag) == [kind |-> IF flag THEN "wrapper" ELSE "plain", count |-> 0]

decorate(f) ==
    /\ Quiet
    /\ wrappers[f].kind = "none"
    /\ wrappers' = [wrappers EXCEPT ![f] = DecorateResult(debug)]
    /\ UNCHANGED <<debug, dirs, fs, inv, invocations, faults, live, sys_modules, suite, search, codec,
                   handles, stack, threads>>

(***************************************************************************)
(* The wrapper, in two steps: up to the call of func, and from it on.      *)
(***************************************************************************)
IoChoices == IF faults < MaxFaults THEN {"ok", "fail"} ELSE {"ok"}

Injected(io) == IF io = "fail" THEN 1 ELSE 0

\* increment, had it counted in steps of two.
incrementByTwo(count) == count + 2

\* The closure make_invocation_counter returns (lines 12-15).
increment(count) == count + 1

\* The branch of line 37 with a budget of one invocation.
OverBudgetAfterOne(invocation_count) == invocation_count > 1

\* The branch of line 37.
OverBudget(invocation_count) == invocation_count > Budget

\* What logCall, logReturn and logError give their caller: the except of
\* lines 39, 73 and 102 prints, and the method returns None either way.
Appended(io) == Return(PyNone)

\* A call of a log method: what open() did, and what the caller got back.
LogEntry(op, io, msg) == [op |-> op, io |-> io, msg |-> msg, outcome |-> Appended(io)]

\* Lines 36-58: count, and within the budget make the directory, serialize
\* the arguments and append the Call record.
Enter(f, args) ==
    LET invocation_count == increment(wrappers[f].count)
        log_file_path == get_log_file_path(f)
        start == [pc |-> "exec", f |-> f, n |-> invocation_count, args |-> args,
                  captured |-> FALSE, fcalls |-> 0, observed |-> NoOutcome,
                  before |-> fs[log_file_path], log |-> <<>>]
        serialized_args == serialize(PyTuple(args))
        serialized_kwargs == serialize(EmptyKwargs)
    IN
    /\ wrappers[f].kind = "wrapper"
    /\ invocations < MaxInvocations
    /\ invocations' = invocations + 1
    /\ wrappers' = [wrappers EXCEPT ![f].count = invocation_count]
    /\ UNCHANGED <<debug, live, sys_modules, suite, search, codec, threads>>
    /\ IF OverBudget(invocation_count)
       THEN /\ inv' = start
            /\ UNCHANGED <<dirs, fs, faults, handles>>
       ELSE \E mk \in IoChoices :
            IF mk = "fail"
            THEN \* os.makedirs raises: the wrapper is left before func is called
                 /\ inv' = [start EXCEPT !.pc = "done", !.captured = TRUE,
                                         !.observed = Raise("OSError", <<>>)]
                 /\ faults' = faults + 1
                 /\ UNCHANGED <<dirs, fs, handles>>
            ELSE /\ dirs' = TRUE
                 /\ IF ~serialized_args.ok \/ ~serialized_kwargs.ok
                    THEN \* serialize raises ValueError: the same
                         /\ inv' = [start EXCEPT !.pc = "done", !.captured = TRUE,
                                                 !.observed = Raise("ValueError", S_notPicklable)]
                         /\ UNCHANGED <<fs, faults, handles>>
                    ELSE \E io \in IoChoices :
                         /\ fs' = [fs EXCEPT ![log_file_path] =
                                      logCall(@, PyBytes(serialized_args.val),
                                              PyBytes(serialized_kwargs.val), io)]
                         /\ handles' = WithOpen(handles, log_file_path, io, FALSE)
                         /\ faults' = faults + Injected(io)
                         /\ inv' = [start EXCEPT !.captured = TRUE,
                                                 !.log = <<LogEntry("logCall", io, <<>>)>>]

\* A call of the wrapper from outside any wrapped function.
WrapperBegin(f, args) ==
    /\ Quiet
    /\ Enter(f, args)
    /\ UNCHANGED stack

\* A call of the wrapper from the body of its own func, which the wrapper
\* has called at line 38 or 61: the invocation that made the call waits.
WrapperNested ==
    /\ inv.pc = "exec"
    /\ Recurses(inv.f, inv.args)
    /\ Enter(inv.f, NestedArgs(inv.f, inv.args))
    /\ stack' = <<inv>> \o stack

\* The nested call is over: its caller, the body of func, goes on with what
\* the wrapper returned or raised.
WrapperResume ==
    /\ inv.pc = "done"
    /\ stack # <<>>
    /\ inv' = [Head(stack) EXCEPT !.pc = "resumed", !.observed = inv.observed]
    /\ stack' = Tail(stack)
    /\ UNCHANGED <<debug, wrappers, dirs, fs, invocations, faults, live, sys_modules, suite,
                   search, codec, handles, threads>>

\* AfterCall with the fault of func swallowed: the Error record is appended
\* and the caller gets None.
AfterCallSwallowing(out) ==
    IF out.kind = "return"
    THEN IF serialize(out.val).ok
         THEN [op |-> "logReturn", msg |-> <<>>, observed |-> out]
         ELSE [op |-> "logError", msg |-> S_notPicklable,
               observed |-> Raise("ValueError", S_notPicklable)]
    ELSE [op |-> "logError", msg |-> out.val.msg, observed |-> Return(PyNone)]

\* What the wrapper does with func's outcome on a captured invocation
\* (lines 62-73): [op, msg, observed], the append it makes and what the
\* caller gets.
AfterCall(out) ==
    IF out.kind = "return"
    THEN IF serialize(out.val).ok
         THEN [op |-> "logReturn", msg |-> <<>>, observed |-> out]
         ELSE [op |-> "logError", msg |-> S_notPicklable,
               observed |-> Raise("ValueError", S_notPicklable)]
    ELSE [op |-> "logError", msg |-> out.val.msg, observed |-> out]

\* The file after the first invocation of a wrapper when no I/O fails
\* (lines 45-73): the Call record, then the Return or the Error record.
CapturedOnce(file, func, args, kwargs, executionTime) ==
    LET serialized_args == serialize(PyTuple(args))
        serialized_kwargs == serialize(kwargs)
        out == Apply(func, args, kwargs)
        after == AfterCall(out)
        called == logCall(file, PyBytes(serialized_args.val), PyBytes(serialized_kwargs.val),
                          "ok")
    IN  IF ~serialized_args.ok \/ ~serialized_kwargs.ok THEN file
        ELSE IF after.op = "logReturn"
        THEN logReturn(called, PyBytes(serialize(out.val).val), executionTime, "ok")
        ELSE logError(called, after.msg, "ok")

\* Line 38, or lines 60-73: call func, append the Return or Error record,
\* return or re-raise.
WrapperEnd ==
    LET f == inv.f
        log_file_path == get_log_file_path(f)
        out == IF inv.pc = "resumed" THEN Resumed(f, inv.observed)
               ELSE Apply(f, inv.args, EmptyKwargs)
        after == AfterCall(out)
    IN
    /\ inv.pc \in {"exec", "resumed"}
    /\ inv.pc = "exec" => ~Recurses(f, inv.args)
    /\ UNCHANGED <<debug, wrappers, dirs, invocations, live, sys_modules, suite, search, codec,
                   stack, threads>>
    /\ IF ~inv.captured
       THEN /\ inv' = [inv EXCEPT !.pc = "done", !.fcalls = 1, !.observed = out]
            /\ UNCHANGED <<fs, faults, handles>>
       ELSE \E io \in IoChoices, executionTime \in ExecTimes :
            /\ handles' = WithOpen(handles, log_file_path, io, FALSE)
            /\ fs' = [fs EXCEPT ![log_file_path] =
                         IF after.op = "logReturn"
                         THEN logReturn(@, PyBytes(serialize(out.val).val), executionTime, io)
                         ELSE logError(@, after.msg, io)]
            /\ faults' = faults + Injected(io)
            /\ inv' = [inv EXCEPT !.pc = "done", !.fcalls = 1, !.observed = after.observed,
                                  !.log = Append(@, LogEntry(after.op, io, after.msg))]

\* A call of what decorate returned at line 28, func itself: pc "plain" is
\* such a call, made and finished.
CallPlain(f, args) ==
    /\ Quiet
    /\ wrappers[f].kind = "plain"
    /\ invocations < MaxInvocations
    /\ invocations' = invocations + 1
    /\ inv' = [IdleInv EXCEPT !.pc = "plain", !.f = f, !.args = args, !.fcalls = 1,
                              !.observed = Apply(f, args, EmptyKwargs),
                              !.before = fs[get_log_file_path(f)]]
    /\ UNCHANGED <<debug, wrappers, dirs, fs, faults, live, sys_modules, suite, search, codec,
                   handles, stack, threads>>

(***************************************************************************)
(* Testing.runTestSuite: its entry, one iteration of its loop, its return. *)
(***************************************************************************)
PathLists == UNION {[1..n -> FilePaths] : n \in 0..MaxPaths}

ReplayPathLists == UNION {[1..n -> ReplayPaths] : n \in 0..MaxPaths}

\* The suite runs in the replay process (lines 106-124): of the capture
\* process only the files are left, and the sources are imported as they
\* are by then.
runTestSuite(log_file_paths, version) ==
    /\ inv.pc # "exec"
    /\ suite.pc # "running"
    /\ version = "v4" => suite.runs < MaxWrappedRuns
    /\ suite' = [IdleSuite EXCEPT !.pc = "running", !.paths = log_file_paths, !.i = 1,
                                  !.runs = suite.runs + (IF version = "v4" THEN 1 ELSE 0)]
    /\ live' = version
    /\ wrappers' = [f \in AllFuncIds |-> [kind |-> "none", count |-> 0]]
    /\ inv' = IdleInv
    /\ invocations' = 0
    /\ faults' = 0
    /\ sys_modules' = {}
    /\ debug' = TRUE
    /\ UNCHANGED <<dirs, fs, search, codec, handles, stack, threads>>

\* The suite after one path: [kind, exc, loaded], kind "Skip", "Pass",
\* "Fail" or "raise".
\* Lines 93-99: the verdict of the test case that was built.
Executed(t, loaded) ==
    IF t.kind = "raise" THEN [kind |-> "raise", exc |-> t.exc, loaded |-> loaded]
    ELSE [kind |-> IF t.kind = "pass" THEN "Pass" ELSE "Fail", exc |-> "", loaded |-> loaded]

\* Lines 83-88: None is a skip, and `continue`.
Decide(test_case, file) ==
    IF test_case.kind = "raise"
    THEN [kind |-> "raise", exc |-> "ValueError", loaded |-> test_case.loaded]
    ELSE IF test_case.kind = "skip"
    THEN [kind |-> "Skip", exc |-> "", loaded |-> test_case.loaded]
    ELSE Executed(testCallable(file, test_case.func), test_case.loaded)

Iteration(file, log_file_path, version) ==
    Decide(createTestCase(file, log_file_path, version), file)

Count(s, verdict, kind) == IF kind = verdict THEN s + 1 ELSE s

\* The suite's state after an iteration that ended as r.
Advance(s, r) ==
    IF r.kind = "raise"
    THEN [s EXCEPT !.pc = "raised", !.exc = r.exc]
    ELSE [s EXCEPT !.i = @ + 1,
                   !.passed = Count(@, "Pass", r.kind),
                   !.failed = Count(@, "Fail", r.kind),
                   !.skipped = Count(@, "Skip", r.kind),
                   !.verdicts = Append(@, r.kind)]

Registered(modules, r) == IF r.loaded = <<>> THEN modules ELSE modules \cup {r.loaded}

StepWith(r) ==
    /\ sys_modules' = Registered(sys_modules, r)
    /\ suite' = Advance(suite, r)

\* testCallable calls a wrapper: the function the test case holds was
\* decorated when its module was executed by load_function.
WrapperCalled(test_case, called, version) ==
    /\ test_case.kind = "case"
    /\ Decorated(version, test_case.func)
    /\ called.made

\* The files after the iteration: the wrapper that testCallable calls
\* appends to the log file of its function.
FilesAfter(files, test_case, called, version, executionTime) ==
    IF WrapperCalled(test_case, called, version)
    THEN [files EXCEPT ![get_log_file_path(test_case.func)] =
             CapturedOnce(@, test_case.func, called.args, called.kwargs, executionTime)]
    ELSE files

WritesOf(file, log_file_path, version) ==
    WrapperCalled(createTestCase(file, log_file_path, version), Called(loadLog(file)), version)

\* The handles after the iteration: createTestCase reads the file (line 56),
\* testCallable reads it again when a test case was built (line 19), and a
\* wrapper that testCallable calls appends its two records.
HandlesAfter(open_handles, file, log_file_path, test_case, called, version) ==
    LET created == HandlesAfterLoad(open_handles, file, log_file_path)
        tested == IF test_case.kind = "case"
                  THEN HandlesAfterLoad(created, file, log_file_path) ELSE created
        own == get_log_file_path(test_case.func)
    IN  IF WrapperCalled(test_case, called, version)
        THEN WithOpen(WithOpen(tested, own, "ok", FALSE), own, "ok", FALSE)
        ELSE tested

SuiteStep ==
    /\ suite.pc = "running"
    /\ suite.i <= Len(suite.paths)
    /\ StepWith(Iteration(fs[suite.paths[suite.i]], suite.paths[suite.i], live))
    /\ \E executionTime \in ExecTimes :
          fs' = FilesAfter(fs, createTestCase(fs[suite.paths[suite.i]], suite.paths[suite.i], live),
                           Called(loadLog(fs[suite.paths[suite.i]])), live, executionTime)
    /\ dirs' = (dirs \/ WritesOf(fs[suite.paths[suite.i]], suite.paths[suite.i], live))
    /\ handles' = HandlesAfter(handles, fs[suite.paths[suite.i]], suite.paths[suite.i],
                               createTestCase(fs[suite.paths[suite.i]], suite.paths[suite.i], live),
                               Called(loadLog(fs[suite.paths[suite.i]])), live)
    /\ UNCHANGED <<debug, wrappers, inv, invocations, faults, live, search, codec, stack, threads>>

SuiteReturn ==
    /\ suite.pc = "running"
    /\ suite.i > Len(suite.paths)
    /\ suite' = [suite EXCEPT !.pc = "returned"]
    /\ UNCHANGED <<debug, wrappers, dirs, fs, inv, invocations, faults, live, sys_modules, search, codec,
                   handles, stack, threads>>

Next ==
    \/ \E b \in BOOLEAN : SetDebugFlag(b)
    \/ \E f \in FuncIds : decorate(f)
    \/ \E f \in FuncIds : \E i \in 1..Len(ArgChoices(f)) : WrapperBegin(f, ArgChoices(f)[i])
    \/ WrapperEnd
    \/ \E f \in FuncIds : \E i \in 1..Len(ArgChoices(f)) : CallPlain(f, ArgChoices(f)[i])
    \/ \E log_file_paths \in PathLists, version \in Versions :
          runTestSuite(log_file_paths, version)
    \/ SuiteStep
    \/ SuiteReturn

Spec == Init /\ [][Next]_vars

\* The capture process alone: the suite is never started.
CaptureNext ==
    \/ \E b \in BOOLEAN : SetDebugFlag(b)
    \/ \E f \in FuncIds : decorate(f)
    \/ \E f \in FuncIds : \E i \in 1..Len(ArgChoices(f)) : WrapperBegin(f, ArgChoices(f)[i])
    \/ WrapperEnd
    \/ \E f \in FuncIds : \E i \in 1..Len(ArgChoices(f)) : CallPlain(f, ArgChoices(f)[i])

CaptureSpec == Init /\ [][CaptureNext]_vars

\* The capture process for callables whose result is told from their
\* argument: double, and maker.
ResultNext ==
    \/ \E b \in BOOLEAN : SetDebugFlag(b)
    \/ \E f \in ResultFuncIds : decorate(f)
    \/ \E f \in ResultFuncIds :
          \E i \in 1..Len(ArgChoices(f)) : WrapperBegin(f, ArgChoices(f)[i])
    \/ WrapperEnd
    \/ \E f \in ResultFuncIds :
          \E i \in 1..Len(ArgChoices(f)) : CallPlain(f, ArgChoices(f)[i])

ResultSpec == Init /\ [][ResultNext]_vars

\* The replay process alone, on the files that are there, for sources that
\* may decorate their functions.
ReplayNext ==
    \/ \E log_file_paths \in ReplayPathLists, version \in ReplayVersions :
          runTestSuite(log_file_paths, version)
    \/ SuiteStep
    \/ SuiteReturn

ReplaySpec == Init /\ [][ReplayNext]_vars

\* The capture of one callable, double, and the replay of its log file on
\* the sources as they are by then.
DoublePath == get_log_file_path("double")

HandleNext ==
    \/ decorate("double")
    \/ \E i \in 1..Len(ArgChoices("double")) : WrapperBegin("double", ArgChoices("double")[i])
    \/ WrapperEnd
    \/ \E version \in Versions : runTestSuite(<<DoublePath>>, version)
    \/ SuiteStep
    \/ SuiteReturn

HandleSpec == Init /\ [][HandleNext]_vars

\* The capture of a callable that calls itself through its wrapper.
RecursionNext ==
    \/ \E f \in RecursiveFuncIds : decorate(f)
    \/ \E f \in RecursiveFuncIds :
          \E i \in 1..Len(ArgChoices(f)) : WrapperBegin(f, ArgChoices(f)[i])
    \/ WrapperNested
    \/ WrapperResume
    \/ WrapperEnd

RecursionSpec == Init /\ [][RecursionNext]_vars

(***************************************************************************)
(* One wrapper, of double, called from two threads.  count += 1 is a read  *)
(* of the closure's cell and a write to it, return count another read;    *)
(* nothing orders the threads between them.  The appends of these calls    *)
(* succeed.                                                                *)
(***************************************************************************)
\* Line 14, the read of count.
ThreadLoad(t) ==
    /\ wrappers["double"].kind = "wrapper"
    /\ threads[t].pc = "idle"
    /\ Len(threads[t].handed) < MaxCalls
    /\ threads' = [threads EXCEPT ![t].pc = "loaded", ![t].count = wrappers["double"].count]
    /\ UNCHANGED <<debug, wrappers, dirs, fs, inv, invocations, faults, live, sys_modules, suite,
                   search, codec, handles, stack>>

\* Line 14, the write of the sum.
ThreadStore(t) ==
    /\ threads[t].pc = "loaded"
    /\ wrappers' = [wrappers EXCEPT !["double"].count = increment(threads[t].count)]
    /\ threads' = [threads EXCEPT ![t].pc = "stored"]
    /\ UNCHANGED <<debug, dirs, fs, inv, invocations, faults, live, sys_modules, suite,
                   search, codec, handles, stack>>

\* Line 15 and lines 36-58: increment returns the cell's value, and within
\* the budget the wrapper appends the Call record.
ThreadBegin(t) ==
    LET invocation_count == wrappers["double"].count
    IN
    /\ threads[t].pc = "stored"
    /\ threads' = [threads EXCEPT ![t].pc = "exec", ![t].handed = Append(@, invocation_count)]
    /\ IF OverBudget(invocation_count)
       THEN UNCHANGED <<dirs, fs, handles>>
       ELSE /\ dirs' = TRUE
            /\ fs' = [fs EXCEPT ![DoublePath] =
                         logCall(@, PyBytes(serialize(PyTuple(<<PyInt(1)>>)).val),
                                 PyBytes(serialize(EmptyKwargs).val), "ok")]
            /\ handles' = WithOpen(handles, DoublePath, "ok", FALSE)
    /\ UNCHANGED <<debug, wrappers, inv, invocations, faults, live, sys_modules, suite,
                   search, codec, stack>>

\* Line 38, or lines 60-69: double(1) returns 2, and within the budget the
\* wrapper appends the Return record.
ThreadEnd(t) ==
    LET invocation_count == threads[t].handed[Len(threads[t].handed)]
        out == Apply("double", <<PyInt(1)>>, EmptyKwargs)
    IN
    /\ threads[t].pc = "exec"
    /\ threads' = [threads EXCEPT ![t].pc = "idle"]
    /\ IF OverBudget(invocation_count)
       THEN UNCHANGED <<fs, handles>>
       ELSE \E executionTime \in ExecTimes :
               /\ fs' = [fs EXCEPT ![DoublePath] =
                            logReturn(@, PyBytes(serialize(out.val).val), executionTime, "ok")]
               /\ handles' = WithOpen(handles, DoublePath, "ok", FALSE)
    /\ UNCHANGED <<debug, wrappers, dirs, inv, invocations, faults, live, sys_modules, suite,
                   search, codec, stack>>

ThreadNext ==
    \/ decorate("double")
    \/ \E t \in Threads : ThreadLoad(t)
    \/ \E t \in Threads : ThreadStore(t)
    \/ \E t \in Threads : ThreadBegin(t)
    \/ \E t \in Threads : ThreadEnd(t)

ThreadSpec == Init /\ [][ThreadNext]_vars

(***************************************************************************)
(* Logger.searchLogDirectory, applied to a directory and to what           *)
(* os.listdir gives for it.                                                *)
(***************************************************************************)
EntryNames == {<<"a", ".", "l", "o", "g">>, <<"b", ".", "t", "x", "t">>, <<".", "l", "o", "g">>,
               <<"l", "o", "g">>, <<"a", ".", "l", "o", "g", "s">>}

\* os.listdir: the names of the entries, each once, in arbitrary order.
NameLists ==
    {names \in UNION {[1..n -> EntryNames] : n \in 0..MaxEntries} :
        \A i, j \in 1..Len(names) : i # j => names[i] # names[j]}

Listings == {[ok |-> TRUE, names |-> names] : names \in NameLists}
               \cup {[ok |-> FALSE, names |-> <<>>]}

Directories == {C_logs, C_logs \o <<"/">>}

SearchInit ==
    /\ Constructed
    /\ codec = IdleCodec
    /\ \E directory \in Directories, listing \in Listings :
          search = [pc |-> "called", log_directory |-> directory, listing |-> listing,
                    log_files |-> <<>>]

SearchLogDirectory ==
    /\ search.pc = "called"
    /\ search' = [search EXCEPT !.pc = "returned",
                                !.log_files = searchLogDirectory(search.log_directory,
                                                                 search.listing)]
    /\ UNCHANGED <<debug, wrappers, dirs, fs, inv, invocations, faults, live, sys_modules, suite,
                   codec, handles, stack, threads>>

SearchNext == SearchLogDirectory

SearchSpec == SearchInit /\ [][SearchNext]_vars

(***************************************************************************)
(* The Serializer, applied to a value: serialize, then deserialize of the  *)
(* bytes it gave.                                                          *)
(***************************************************************************)
Atoms == {PyInt(0), PyInt(10), PyInt(255), PyNone, PyFloat(<<62, 194, 10, 0, 0, 0, 0, 0>>),
          PyBytes(<<>>), PyBytes(<<10, 46>>), PyStr(<<97, 10>>), PyLambda}

TuplesOf(values) == {PyTuple(items) : items \in UNION {[1..n -> values] : n \in 0..MaxItems}}

\* The values handed to serialize: atoms, tuples of atoms, tuples of a tuple,
\* dicts, and the records the Logger builds.
InputValues ==
    Atoms \cup TuplesOf(Atoms)
          \cup {PyTuple(<<t>>) : t \in {PyTuple(<<>>), PyTuple(<<PyInt(10)>>), PyTuple(<<PyLambda>>)}}
          \cup {PyDict(<<PyStr(<<97>>)>>, <<a>>) : a \in Atoms}
          \cup {PyDict(<<>>, <<>>),
                CallRecord(PyBytes(PickleDumps(PyTuple(<<PyInt(10)>>))),
                           PyBytes(PickleDumps(PyDict(<<>>, <<>>)))),
                ReturnRecord(PyBytes(PickleDumps(PyInt(10))), <<62, 194, 10, 0, 0, 0, 0, 0>>)}

CodecInit ==
    /\ Constructed
    /\ search = IdleSearch
    /\ \E v \in InputValues : codec = [IdleCodec EXCEPT !.pc = "called", !.input_data = v]

\* Serializer.serialize: the bytes, or the ValueError.
Serialize ==
    /\ codec.pc = "called"
    /\ codec' = IF serialize(codec.input_data).ok
                THEN [codec EXCEPT !.pc = "serialized",
                                   !.serialized_data = serialize(codec.input_data).val]
                ELSE [codec EXCEPT !.pc = "raised"]
    /\ UNCHANGED <<debug, wrappers, dirs, fs, inv, invocations, faults, live, sys_modules, suite,
                   search, handles, stack, threads>>

\* Serializer.deserialize of those bytes: the value, or the ValueError.
Deserialize ==
    /\ codec.pc = "serialized"
    /\ codec' = IF deserialize(codec.serialized_data).ok
                THEN [codec EXCEPT !.pc = "deserialized",
                                   !.output = deserialize(codec.serialized_data).val]
                ELSE [codec EXCEPT !.pc = "raised"]
    /\ UNCHANGED <<debug, wrappers, dirs, fs, inv, invocations, faults, live, sys_modules, suite,
                   search, handles, stack, threads>>

CodecNext == Serialize \/ Deserialize

CodecSpec == CodecInit /\ [][CodecNext]_vars


(***************************************************************************)
(* The properties.  Faults of the environment are failures that raise an   *)
(* Exception: an exit by KeyboardInterrupt or SystemExit is not modelled.  *)
(***************************************************************************)
\* f(a), called directly.
Direct(f, args) == Apply(f, args, EmptyKwargs)

Finished == inv.pc = "done"

\* The bytes the invocation in inv has added to its log file.
CallLine(args) ==
    serialize(CallRecord(PyBytes(serialize(PyTuple(args)).val),
                         PyBytes(serialize(EmptyKwargs).val))).val \o <<10>>

IfOk(entry, bytes) == IF entry.io = "ok" THEN bytes ELSE <<>>

LogFileOf(f) == fs[get_log_file_path(f)]

\* C1: with capture enabled, on every invocation (within or past the budget)
\* and for every argument list, the caller of the wrapper gets the value or
\* the fault that f(a) gives; stated for the runs in which no I/O fails.
C1_Transparency ==
    (Finished /\ faults = 0) => inv.observed = Direct(inv.f, inv.args)

\* C1's case: a finished invocation within the budget, no I/O failure.
C1_Case == Finished /\ faults = 0 /\ inv.n <= Budget /\ inv.args = <<PyLambda>>

\* C2: the 1st and the 2nd invocation of a wrapper each append one Call
\* record and then one Return or Error record, the 3rd and later ones append
\* nothing and call no log method, and every invocation returns f's result;
\* stated for the runs in which no I/O fails.
C2_BudgetCutoff ==
    (Finished /\ faults = 0) =>
        /\ inv.n <= Budget =>
              /\ Len(inv.log) = 2
              /\ inv.log[1].op = "logCall"
              /\ inv.log[2].op \in {"logReturn", "logError"}
              /\ Len(FileLines(LogFileOf(inv.f).data)) >= Len(FileLines(inv.before.data)) + 2
        /\ inv.n > Budget => inv.log = <<>> /\ LogFileOf(inv.f) = inv.before
        /\ inv.observed = Direct(inv.f, inv.args)

\* C2's case: a third invocation of one wrapper has finished.
C2_Case == Finished /\ inv.n = Budget + 1 /\ faults = 0

\* C3: when f raises on a captured invocation, the wrapper's appends are the
\* Call record and then one Error record with the fault's message, no Return
\* record, and the caller gets the identical fault.  An append that fails
\* leaves the file as it was.
C3_FaultTransparency ==
    (Finished /\ inv.captured /\ inv.fcalls = 1
        /\ Direct(inv.f, inv.args).kind = "raise") =>
        /\ Len(inv.log) = 2
        /\ inv.log[1].op = "logCall"
        /\ inv.log[2].op = "logError"
        /\ inv.log[2].msg = Direct(inv.f, inv.args).val.msg
        /\ LogFileOf(inv.f).data =
              inv.before.data \o IfOk(inv.log[1], CallLine(inv.args))
                              \o IfOk(inv.log[2], S_ERROR \o S_boom \o <<10>>)
        /\ inv.observed = Direct(inv.f, inv.args)

\* C3's case: failer was called once, both appends succeeded, the file holds
\* the Call record and the Error line, the caller got the ValueError "boom".
C3_Case ==
    /\ Finished /\ inv.f = "failer" /\ inv.n = 1 /\ inv.fcalls = 1
    /\ inv.log = <<LogEntry("logCall", "ok", <<>>), LogEntry("logError", "ok", S_boom)>>
    /\ LogFileOf("failer").data = CallLine(inv.args) \o S_ERROR \o S_boom \o <<10>>
    /\ inv.observed = Raise("ValueError", S_boom)

\* C4: on every wrapper invocation f is called exactly once and the caller
\* gets f's own outcome, also when the directory cannot be made, the
\* arguments cannot be serialized or an append fails.
C4_LoggingNeverPrevents ==
    Finished => inv.fcalls = 1 /\ inv.observed = Direct(inv.f, inv.args)

\* C4's case: os.makedirs failed on a captured invocation.
C4_Case == Finished /\ inv.captured /\ faults = 1 /\ inv.log = <<>> /\ ~dirs

(***************************************************************************)
(* Replay.  The suite has ended when it returned its summary or was left   *)
(* by an exception.                                                        *)
(***************************************************************************)
Ended == suite.pc \in {"returned", "raised"}

\* The iteration of path i has run: to a verdict, or to the exception.
Ran(i) == /\ Ended
          /\ i \in 1..Len(suite.paths)
          /\ i < suite.i \/ (suite.pc = "raised" /\ i = suite.i)

HasKeys(rec, k1, k2) == rec.tag = "dict" /\ rec.keys = <<PyStr(k1), PyStr(k2)>>

IsCallRecord(rec) == HasKeys(rec, S_args, S_kwargs)

IsReturnRecord(rec) == HasKeys(rec, S_result, S_executionTime)

IsCallLine(line) == deserialize(Strip(line)).ok /\ IsCallRecord(deserialize(Strip(line)).val)

IsReturnLine(line) == deserialize(Strip(line)).ok /\ IsReturnRecord(deserialize(Strip(line)).val)

IsErrorLine(line) == IsPrefixAt(line, 1, S_ERROR)

\* The file holds one Call record and then one Return record, as the capture
\* of one successful invocation writes them.
CallReturnLines(lines) == Len(lines) = 2 /\ IsCallLine(lines[1]) /\ IsReturnLine(lines[2])

CallThenReturn(file) == file.exists /\ CallReturnLines(FileLines(file.data))

\* The arguments and the result the two records hold (each was serialized
\* before it was put in its record).
RecordedArgs(file) == deserialize(loadLog(file)[1].vals[1].b).val.items

RecordedResult(file) == deserialize(loadLog(file)[2].vals[1].b).val

Resolved(log_file_path) == load_function(log_file_path, <<>>, live).func

\* What the resolved callable gives on the recorded arguments.
LiveOutcome(log_file_path) ==
    Apply(Resolved(log_file_path), RecordedArgs(fs[log_file_path]), EmptyKwargs)

\* A suite over the single path of a captured Call, Return pair whose
\* callable resolves.
OnePair ==
    /\ Ended
    /\ Len(suite.paths) = 1
    /\ CallThenReturn(fs[suite.paths[1]])
    /\ Resolved(suite.paths[1]) # None

\* C5: a file holding the Call and the Return record of one captured
\* successful invocation of f, with f unchanged and resolvable from the path:
\* runTestSuite on that path returns passed = 1, failed = 0, skipped = 0.
C5_RecordThenReplay ==
    (OnePair /\ live = "v1") =>
        /\ suite.pc = "returned"
        /\ suite.passed = 1 /\ suite.failed = 0 /\ suite.skipped = 0

\* C5's case: the suite has run on the file double(1) was captured in.
C5_Case ==
    /\ OnePair /\ live = "v1"
    /\ suite.paths[1] = get_log_file_path("double")
    /\ RecordedArgs(fs[suite.paths[1]]) = <<PyInt(1)>>
    /\ RecordedResult(fs[suite.paths[1]]) = PyInt(2)

\* C6: the verdict is Pass exactly when the resolved callable returns, on the
\* recorded inputs, the result of the Return record; a callable changed to
\* return something else gives failed = 1 and passed = 0.
C6_PassIffEqual ==
    OnePair =>
        /\ suite.pc = "returned"
        /\ IF LiveOutcome(suite.paths[1]) = Return(RecordedResult(fs[suite.paths[1]]))
           THEN suite.passed = 1 /\ suite.failed = 0
           ELSE suite.passed = 0 /\ suite.failed = 1

\* C6's case: the suite has run on double's captured pair with double
\* changed, so that its output differs from the recorded result.
C6_Case ==
    /\ OnePair /\ live = "v2"
    /\ LiveOutcome(suite.paths[1]).kind = "return"
    /\ LiveOutcome(suite.paths[1]) # Return(RecordedResult(fs[suite.paths[1]]))

\* The three shapes that are to be skipped: no record, a lone Call record, a
\* Call record and then an Error line.
SkipLines(lines) ==
    \/ lines = <<>>
    \/ Len(lines) = 1 /\ IsCallLine(lines[1])
    \/ Len(lines) = 2 /\ IsCallLine(lines[1]) /\ IsErrorLine(lines[2])

SkipShape(file) == file.exists /\ SkipLines(FileLines(file.data))

\* C7: a path whose file is empty, holds only a Call record, or holds a Call
\* record followed by an Error record gets the verdict Skip: never Pass or
\* Fail, and the suite is not left by a fault there.
C7_SkipCorrectness ==
    \A i \in 1..Len(suite.paths) :
        (Ran(i) /\ SkipShape(fs[suite.paths[i]])) =>
            i < suite.i /\ suite.verdicts[i] = "Skip"

\* C7's case: the suite has run on failer's file, a Call record and an
\* Error line.
C7_Case ==
    /\ Ran(1)
    /\ suite.paths[1] = get_log_file_path("failer")
    /\ SkipShape(fs[suite.paths[1]])
    /\ Len(FileLines(fs[suite.paths[1]].data)) = 2

\* The file of two captured invocations: Call, Return, Call, Return.
TwoPairLines(lines) ==
    /\ Len(lines) = 4
    /\ IsCallLine(lines[1]) /\ IsReturnLine(lines[2])
    /\ IsCallLine(lines[3]) /\ IsReturnLine(lines[4])

TwoPairs(file) == file.exists /\ TwoPairLines(FileLines(file.data))

\* C8: from a file with the records of two captured invocations and a
\* callable that resolves, createTestCase builds the test case of the first
\* Call and the first Return record; the later records do not prevent it.
C8_FirstPair ==
    \A i \in 1..Len(suite.paths) :
        (Ran(i) /\ TwoPairs(fs[suite.paths[i]]) /\ Resolved(suite.paths[i]) # None) =>
            createTestCase(fs[suite.paths[i]], suite.paths[i], live).kind = "case"

\* C8's case: the suite has run on the four records of double's two
\* captured invocations.
C8_Case ==
    /\ Ran(1)
    /\ suite.paths[1] = get_log_file_path("double")
    /\ TwoPairs(fs[suite.paths[1]])

\* C9: whatever the files hold, runTestSuite returns a summary whose
\* passed + failed + skipped is the number of paths it was given.
C9_Aggregation ==
    Ended =>
        /\ suite.pc = "returned"
        /\ suite.passed + suite.failed + suite.skipped = Len(suite.paths)

\* C9's case: the suite has returned the summary of two paths.
C9_Case == suite.pc = "returned" /\ Len(suite.paths) = MaxPaths

\* C10: runTestSuite is never left by an exception, and when it has ended
\* every path has exactly one verdict among Skip, Pass and Fail.
C10_NeverAborts ==
    Ended =>
        /\ suite.pc # "raised"
        /\ Len(suite.verdicts) = Len(suite.paths)
        /\ \A i \in 1..Len(suite.verdicts) : suite.verdicts[i] \in {"Skip", "Pass", "Fail"}

\* C10's case: the suite has ended on a path whose file the loader cannot
\* read to its end.
C10_Case ==
    /\ Ran(1)
    /\ fs[suite.paths[1]].exists
    /\ Len(loadLog(fs[suite.paths[1]])) < Len(FileLines(fs[suite.paths[1]].data))

(***************************************************************************)
(* The records of a file as they were appended: a record runs to the end   *)
(* of its pickle frame, an Error line to its newline.  (loadLog reads by   *)
(* lines instead; the properties of reading are stated with loadLog.)      *)
(***************************************************************************)
KindOfLoaded(r) ==
    IF r.ok /\ IsCallRecord(r.val) THEN "Call"
    ELSE IF r.ok /\ IsReturnRecord(r.val) THEN "Return"
    ELSE "junk"

\* The frame of protocol 4: PROTO 4, FRAME, eight length bytes, the body.
Framed(data) ==
    /\ Len(data) >= 12
    /\ data[1] = 128 /\ data[3] = 149
    /\ Len(data) >= 12 + data[4]
    /\ data[12 + data[4]] = 10

RECURSIVE Units(_)
Units(data) ==
    IF data = <<>> THEN <<>>
    ELSE IF IsPrefixAt(data, 1, S_ERROR)
    THEN IF FirstNewline(data, 1) = 0 THEN <<"junk">>
         ELSE <<"Error">> \o Units(SubSeq(data, FirstNewline(data, 1) + 1, Len(data)))
    ELSE IF Framed(data)
    THEN <<KindOfLoaded(PickleLoads(SubSeq(data, 1, 11 + data[4])))>>
         \o Units(SubSeq(data, 13 + data[4], Len(data)))
    ELSE <<"junk">>

RECURSIVE Pairs(_)
Pairs(kinds) ==
    \/ kinds = <<>>
    \/ /\ Len(kinds) >= 2
       /\ kinds[1] = "Call"
       /\ kinds[2] \in {"Return", "Error"}
       /\ Pairs(SubSeq(kinds, 3, Len(kinds)))

\* A captured invocation is between its Call and its Return or Error append.
Running(invocation, log_file_path) ==
    /\ invocation.pc = "exec"
    /\ invocation.captured
    /\ get_log_file_path(invocation.f) = log_file_path

PairsThenCall(kinds) ==
    /\ kinds # <<>>
    /\ kinds[Len(kinds)] = "Call"
    /\ Pairs(SubSeq(kinds, 1, Len(kinds) - 1))

Alternating(files, invocation, log_file_path) ==
    IF Running(invocation, log_file_path)
    THEN PairsThenCall(Units(files[log_file_path].data))
    ELSE Pairs(Units(files[log_file_path].data))

\* The files the wrappers of the session write.
CapturePaths == {get_log_file_path(f) : f \in FuncIds}

AllAlternating(files, invocation) ==
    \A p \in CapturePaths : Alternating(files, invocation, p)

\* Every append of the invocation has succeeded.
AppendsOk(invocation) == \A i \in 1..Len(invocation.log) : invocation.log[i].io = "ok"

AppendedCall == CallRecord(PyBytes(serialize(PyTuple(inv.args)).val),
                           PyBytes(serialize(EmptyKwargs).val))

AppendedReturn(t) ==
    ReturnRecord(PyBytes(serialize(Direct(inv.f, inv.args).val).val), t)

\* A first captured invocation has appended its Call and its Return record
\* to a file that was not there.
CallReturnAppended ==
    /\ Finished /\ inv.captured
    /\ inv.before = NoFile
    /\ Len(inv.log) = 2 /\ inv.log[2].op = "logReturn"
    /\ AppendsOk(inv)

\* C12: after logCall and logReturn appends to an initially empty file,
\* loadLog returns exactly the appended records, one element per append, in
\* append order, whatever the payloads are.
C12_ReadBack ==
    CallReturnAppended =>
        \E t \in ExecTimes : loadLog(LogFileOf(inv.f)) = <<AppendedCall, AppendedReturn(t)>>

\* C12's case: the Call and the Return record of double(5) were appended,
\* the result 10 being the payload of the Return record.
C12_Case ==
    /\ CallReturnAppended
    /\ inv.f = "double" /\ inv.args = <<PyInt(5)>>
    /\ inv.observed = Return(PyInt(10))

\* The number of leading lines that decode.
RECURSIVE Decodable(_)
Decodable(lines) ==
    IF lines # <<>> /\ deserialize(Strip(Head(lines))).ok
    THEN 1 + Decodable(Tail(lines))
    ELSE 0

\* What loadLog is to return for the lines of a file: the records decoded
\* before the first line that does not decode.
ReadsPrefix(dataset, lines) ==
    /\ Len(dataset) = Decodable(lines)
    /\ \A i \in 1..Len(dataset) : dataset[i] = deserialize(Strip(lines[i])).val

FuncRaised == Finished /\ inv.fcalls = 1 /\ Direct(inv.f, inv.args).kind = "raise"

EndsWith(data, suffix) ==
    /\ Len(data) >= Len(suffix)
    /\ SubSeq(data, Len(data) - Len(suffix) + 1, Len(data)) = suffix

\* The invocation in inv has added an Error record with func's message to
\* its file, as the last thing it added.
ErrorRecorded ==
    /\ Len(LogFileOf(inv.f).data) > Len(inv.before.data)
    /\ EndsWith(LogFileOf(inv.f).data, ErrorLine(Direct(inv.f, inv.args).val.msg))

\* C14, as stated: every fault func raises, on the 1st, the 2nd or any later
\* invocation of the wrapper, is recorded as an Error record before it is
\* re-propagated (stated for the invocations on which no append fails).
C14_EveryFaultRecorded ==
    (FuncRaised /\ AppendsOk(inv)) => ErrorRecorded /\ inv.observed = Direct(inv.f, inv.args)

\* C14, amended: the fault of func is re-propagated on every invocation; on
\* the 1st and the 2nd invocation of the wrapper it is first passed to
\* logError, and recorded when that append succeeds; from the 3rd invocation
\* on no log method is called and the file is left as it was.
C14_FaultRecordedWithinBudget ==
    FuncRaised =>
        /\ inv.observed = Direct(inv.f, inv.args)
        /\ IF inv.n <= Budget
           THEN /\ inv.log # <<>>
                /\ inv.log[Len(inv.log)].op = "logError"
                /\ inv.log[Len(inv.log)].io = "ok" => ErrorRecorded
           ELSE inv.log = <<>> /\ LogFileOf(inv.f) = inv.before

\* C14's case: failer has raised on its third invocation.
C14_Case ==
    /\ FuncRaised /\ inv.f = "failer" /\ inv.n = Budget + 1
    /\ inv.observed = Raise("ValueError", S_boom)

\* A step in which what decorate returned for f is called.
Invokes(f, invocation) ==
    /\ invocations' = invocations + 1
    /\ invocation.f = f

\* C15: when the debug flag is false as decorate(f) is called, decorate
\* returns f itself, and a later invocation, whatever the flag is by then,
\* creates no directory, appends no record and gives what f gives.
C15_DisabledMode ==
    [][\A f \in FuncIds, invocation \in {inv'} :
          /\ (wrappers[f].kind = "none" /\ wrappers'[f].kind # "none" /\ ~debug)
                => wrappers'[f].kind = "plain"
          /\ (wrappers[f].kind = "plain" /\ Invokes(f, invocation))
                => /\ dirs' = dirs /\ fs' = fs
                   /\ invocation.log = <<>>
                   /\ invocation.observed = Direct(f, invocation.args)]_vars

\* C15's case: decorated with the flag off, double is called for the third
\* time with the flag on again; no directory and no file has been made.
C15_Case ==
    /\ inv.pc = "plain" /\ inv.f = "double" /\ invocations = MaxInvocations
    /\ wrappers["double"].kind = "plain"
    /\ debug
    /\ ~dirs /\ LogFileOf("double") = NoFile

\* C16: the counter of a wrapper is 0 when decorate returns the wrapper, a
\* step that invokes the wrapper adds exactly 1 to it, whatever the
\* invocation comes to (return, fault, logging failure), and no other step
\* changes it: not the end of the invocation, not an invocation of another
\* wrapper, not a change of the flag.
C16_OwnCounter ==
    [][\A f \in FuncIds, invocation \in {inv'} :
          /\ (wrappers[f].kind = "none" /\ wrappers'[f].kind = "wrapper")
                => wrappers'[f].count = 0
          /\ wrappers[f].kind = "wrapper"
                => /\ wrappers'[f].kind = "wrapper"
                   /\ wrappers'[f].count =
                         IF Invokes(f, invocation) THEN wrappers[f].count + 1
                         ELSE wrappers[f].count
                   /\ Invokes(f, invocation) => invocation.n = wrappers[f].count + 1]_vars

\* C16's case: double's wrapper has counted two invocations, and an
\* invocation of failer's that ended with a fault has left it at that.
C16_Case ==
    /\ wrappers["double"].count = 2
    /\ wrappers["failer"].count = 1
    /\ Finished /\ inv.f = "failer" /\ inv.observed.kind = "raise"

\* The identities whose log paths the model holds: [root, f].
Identities ==
    {[root |-> log_directory, f |-> f] : f \in FuncIds}
        \cup {[root |-> C_root, f |-> f] : f \in {"add", "log_add"}}

\* root/namespace.name.log, as get_log_file_path builds it.
PathOf(id) == id.root \o <<"/">> \o FuncModule(id.f) \o <<".">> \o FuncName(id.f) \o C_dotlog

\* A component of an identity: not empty, no path separator, no '.' (and so
\* no '.log').
Clean(component) ==
    /\ component # <<>>
    /\ \A i \in 1..Len(component) : component[i] \notin {"/", "."}

\* The suite has called load_function on the path (line 62 of testing.py is
\* reached when the file has loaded as two records).
SuiteParsed(log_file_path) ==
    \E i \in 1..Len(suite.paths) :
        /\ Ran(i)
        /\ suite.paths[i] = log_file_path
        /\ Len(loadLog(fs[log_file_path])) = 2

\* C17: for an identity whose namespace and name are clean, the parse that
\* load_function applies to the path get_log_file_path builds for it gives
\* back exactly the namespace and the name.
C17_PathRoundTrip ==
    \A id \in Identities :
        (Clean(FuncModule(id.f)) /\ Clean(FuncName(id.f)) /\ SuiteParsed(PathOf(id))) =>
            ParseNames(PathOf(id), <<>>) =
                [ok |-> TRUE, module_name |-> FuncModule(id.f), func_name |-> FuncName(id.f)]

\* C17's case: the suite has run on root/pkg.log_add.log.
C17_Case == SuiteParsed(LogAddPath) /\ Clean(C_pkg) /\ Clean(C_log_add)

\* What load_function can return other than None.
Callables == {"double", "double_v2", "failer", "add", "add_v2", "log_add",
              "sample_function", "another_function"}

\* The ways a resolution fails: a segment that does not split into two
\* parts, an unknown namespace, a module that raises while it loads, an
\* unknown name.
Unresolvable(names, version) ==
    \/ ~names.ok
    \/ /\ names.ok /\ names.module_name = C_main
       /\ FunctionMappingGlobals(names.func_name) = None
    \/ /\ names.ok /\ names.module_name # C_main
       /\ \/ names.module_name \notin ImportableModules(version)
          \/ ExecFails(version, names.module_name)
          \/ ModuleAttr(version, names.module_name, names.func_name) = None

ReturnsNoneOrCallable(r, names, version) ==
    /\ r.func \in Callables \cup {None}
    /\ Unresolvable(names, version) <=> r.func = None

C19_UnresolvedSkips ==
    \A i \in 1..Len(suite.paths) :
        (Ran(i) /\ fs[suite.paths[i]].exists /\ Resolved(suite.paths[i]) = None) =>
            i < suite.i /\ suite.verdicts[i] = "Skip"

\* C19's case: the suite has run on the file of two captured invocations of
\* ident, which is not to be found at replay time.
C19_Case ==
    /\ Ran(1)
    /\ suite.paths[1] = get_log_file_path("ident")
    /\ TwoPairs(fs[suite.paths[1]])
    /\ Resolved(suite.paths[1]) = None

\* C20: on a file with the Call and the Return record of a captured
\* invocation, and a callable that resolves, the replay calls the callable
\* with the positional and the keyword arguments the Call record holds, and
\* no fault comes from taking the record apart.
C20_CallingConvention ==
    \A i \in 1..Len(suite.paths) :
        (Ran(i) /\ CallThenReturn(fs[suite.paths[i]]) /\ Resolved(suite.paths[i]) # None) =>
            ReplayCall(loadLog(fs[suite.paths[i]])[1], Resolved(suite.paths[i]))
                = LiveOutcome(suite.paths[i])

\* C20's case: the replay of the Call record of double(1) has run.
C20_Case ==
    /\ Ran(1)
    /\ suite.paths[1] = get_log_file_path("double")
    /\ CallThenReturn(fs[suite.paths[1]])
    /\ Resolved(suite.paths[1]) = "double"
    /\ IsCallRecord(loadLog(fs[suite.paths[1]])[1])
    /\ RecordedArgs(fs[suite.paths[1]]) = <<PyInt(1)>>

\* The entries of the directory whose name ends with ".log", by position.
LogEntries == {i \in 1..Len(search.listing.names) :
                  LET name == search.listing.names[i]
                  IN  Len(name) >= 4 /\ SubSeq(name, Len(name) - 3, Len(name)) = C_dotlog}

\* The path of an entry: the directory, one "/" between, the name.
EntryPath(name) ==
    LET directory == search.log_directory
    IN  (IF directory[Len(directory)] = "/" THEN directory ELSE Append(directory, "/")) \o name

\* C21: searchLogDirectory returns one path per entry whose name ends with
\* ".log", the directory joined with the name, and nothing else; for a
\* directory that is missing or cannot be read it returns the empty list,
\* and it raises in neither case.
C21_SearchLogDirectory ==
    search.pc = "returned" =>
        /\ Len(search.log_files) = Cardinality(LogEntries)
        /\ \A i \in LogEntries :
              \E k \in 1..Len(search.log_files) :
                  search.log_files[k] = EntryPath(search.listing.names[i])
        /\ \A k \in 1..Len(search.log_files) :
              \E i \in LogEntries : search.log_files[k] = EntryPath(search.listing.names[i])
        /\ ~search.listing.ok => search.log_files = <<>>

\* C21's case: a directory with a log file, a file of another suffix and a
\* file whose name holds ".log" before its end has been searched.
C21_Case ==
    /\ search.pc = "returned"
    /\ search.listing.ok
    /\ Len(search.listing.names) = 3
    /\ Cardinality(LogEntries) = 1
    /\ \E i \in 1..3 : search.listing.names[i] = <<"a", ".", "l", "o", "g", "s">>
    /\ \E i \in 1..3 : search.listing.names[i] = <<"b", ".", "t", "x", "t">>

\* The log calls the invocation in inv has made whose open() failed.
FailedAppends == {i \in 1..Len(inv.log) : inv.log[i].io = "fail"}

\* C22: an append whose I/O fails gives its caller an outcome that tells it
\* from an append that succeeded, and leaves the file as it was.
C22_FailureReported ==
    \A i \in FailedAppends :
        /\ inv.log[i].outcome # Appended("ok")
        /\ Len(inv.log) = 1 => LogFileOf(inv.f) = inv.before

\* C22's case: the Call record's append has failed, func has been called and
\* the Return record's append has succeeded.
C22_Case ==
    /\ Finished
    /\ Len(inv.log) = 2
    /\ FailedAppends = {1}
    /\ inv.log[2].op = "logReturn"

\* The log calls the invocation in inv has made whose append was made.
MadeAppends == {i \in 1..Len(inv.log) : inv.log[i].io = "ok"}

LinesOf(file) == FileLines(file.data)

\* C23: the appends of an invocation add one newline-terminated line each to
\* the file, in append order, whatever the payload or the message is; an
\* Error record is the line "ERROR: <message>".
C23_WireFraming ==
    (inv.pc \in {"exec", "done"} /\ inv.captured) =>
        LET lines == LinesOf(LogFileOf(inv.f))
        IN  /\ Len(lines) = Len(LinesOf(inv.before)) + Cardinality(MadeAppends)
            /\ \A k \in 1..Len(lines) : lines[k][Len(lines[k])] = 10
            /\ \A i \in MadeAppends :
                  inv.log[i].op = "logError" =>
                      lines[Len(lines)] = S_ERROR \o inv.log[i].msg \o <<10>>

\* C23's case: double(5) has been captured, both appends made; its result
\* is 10.
C23_Case ==
    /\ Finished
    /\ inv.f = "double"
    /\ inv.args = <<PyInt(5)>>
    /\ MadeAppends = {1, 2}
    /\ inv.before = NoFile

\* The file `after` is the file `before` with bytes added at its end, if any.
Grown(before, after) ==
    /\ before.exists => after.exists
    /\ Len(before.data) <= Len(after.data)
    /\ SubSeq(after.data, 1, Len(before.data)) = before.data

\* C24: no step of the program (a wrapper invocation with its logCall,
\* logReturn and logError, the suite with its loadLog) truncates or rewrites
\* a log file: what a file held before the step is a prefix of what it
\* holds after it.
C24_AppendOnly == [][\A p \in StorePaths : Grown(fs[p], fs'[p])]_vars

\* C24's case: a file holds the records of two invocations and the suite
\* has read it.
C24_Case ==
    /\ Ended
    /\ Len(suite.paths) = 1
    /\ suite.paths[1] \in CapturePaths
    /\ Len(LinesOf(fs[suite.paths[1]])) >= 4

\* The suite run to its end on a list: the steps SuiteStep and SuiteReturn
\* take, one after the other, from the activation s and the files `files`.
RECURSIVE RunFrom(_, _, _, _)
RunFrom(s, files, version, executionTime) ==
    IF s.pc = "raised" THEN s
    ELSE IF s.i > Len(s.paths) THEN [s EXCEPT !.pc = "returned"]
    ELSE RunFrom(Advance(s, Iteration(files[s.paths[s.i]], s.paths[s.i], version)),
                 FilesAfter(files, createTestCase(files[s.paths[s.i]], s.paths[s.i], version),
                            Called(loadLog(files[s.paths[s.i]])), version, executionTime),
                 version, executionTime)

RunOn(log_file_paths, executionTime) ==
    RunFrom([suite EXCEPT !.paths = log_file_paths], fs, live, executionTime)

\* The lists that hold the paths of `paths` in another order (or the same).
Reorderings(paths) ==
    {[k \in 1..Len(paths) |-> paths[q[k]]] :
        q \in {f \in [1..Len(paths) -> 1..Len(paths)] :
                  \A a, b \in 1..Len(paths) : a # b => f[a] # f[b]}}

Counts(s) == <<s.passed, s.failed, s.skipped>>

SameCounts(s, t) == s.pc = "returned" => (t.pc = "returned" /\ Counts(t) = Counts(s))

\* The k-th verdict is that of the k-th path of the list.
InListOrder(s) ==
    /\ Len(s.verdicts) = s.i - 1
    /\ s.i - 1 <= Len(s.paths)
    /\ s.passed + s.failed + s.skipped = s.i - 1

Entered == suite.pc = "running" /\ suite.i = 1

RECURSIVE SameValue(_, _)
SameValue(a, b) ==
    /\ a.tag = b.tag
    /\ CASE a.tag = "tuple" ->
              /\ Len(a.items) = Len(b.items)
              /\ \A i \in 1..Len(a.items) : SameValue(a.items[i], b.items[i])
         [] a.tag = "dict" ->
              /\ Len(a.keys) = Len(b.keys)
              /\ \A i \in 1..Len(a.keys) : \E j \in 1..Len(b.keys) :
                    SameValue(a.keys[i], b.keys[j]) /\ SameValue(a.vals[i], b.vals[j])
         [] OTHER -> a = b

\* C26: a value that serialize accepts comes back from deserialize, equal
\* in structure to what went in; deserialize does not raise on the bytes.
C26_CodecRoundTrip ==
    /\ codec.pc = "deserialized" => SameValue(codec.output, codec.input_data)
    /\ codec.pc = "raised" => ~Picklable(codec.input_data)

\* C26's case: the Return record of a result whose pickle holds the newline
\* byte has gone through the codec.
C26_Case ==
    /\ codec.pc = "deserialized"
    /\ codec.input_data.tag = "dict"
    /\ Len(codec.input_data.keys) = 2
    /\ \E i \in 1..Len(codec.serialized_data) : codec.serialized_data[i] = 10

\* func was called on a captured invocation and returned.
FuncReturned ==
    /\ Finished
    /\ inv.captured
    /\ inv.fcalls = 1
    /\ Direct(inv.f, inv.args).kind = "return"

LogOps == [i \in 1..Len(inv.log) |-> inv.log[i].op]

\* C27: when func returns on a captured invocation, whatever the result is,
\* the wrapper calls logReturn once and logError not at all, does not raise,
\* and its caller gets func's result (stated for the invocations on which
\* no append fails).
C27_NormalReturn ==
    (FuncReturned /\ AppendsOk(inv)) =>
        /\ LogOps = <<"logCall", "logReturn">>
        /\ inv.observed = Direct(inv.f, inv.args)

\* C27's case: maker(1) has been called through its wrapper, no I/O failing.
C27_Case ==
    /\ FuncReturned
    /\ inv.f = "maker"
    /\ inv.n = 1
    /\ faults = 0

\* func is executing on a captured invocation.
Executing == inv.pc = "exec" /\ inv.captured

RECURSIVE RecordsOf(_)
RecordsOf(data) ==
    IF data = <<>> THEN <<>>
    ELSE IF IsPrefixAt(data, 1, S_ERROR)
    THEN IF FirstNewline(data, 1) = 0 THEN <<[kind |-> "junk", val |-> PyNone]>>
         ELSE <<[kind |-> "Error",
                 val |-> PyStr(SubSeq(data, Len(S_ERROR) + 1, FirstNewline(data, 1) - 1))]>>
              \o RecordsOf(SubSeq(data, FirstNewline(data, 1) + 1, Len(data)))
    ELSE IF Framed(data)
    THEN <<[kind |-> KindOfLoaded(PickleLoads(SubSeq(data, 1, 11 + data[4]))),
            val |-> PickleLoads(SubSeq(data, 1, 11 + data[4])).val]>>
         \o RecordsOf(SubSeq(data, 13 + data[4], Len(data)))
    ELSE <<[kind |-> "junk", val |-> PyNone]>>

\* The arguments a Call record carries.
ArgsOf(call) == deserialize(call.val.vals[1].b).val.items

\* The record after a Call record is the outcome of f on the Call's
\* arguments: the Return record of its result, or the Error record of its
\* fault.
Answers(f, call, next) ==
    /\ call.kind = "Call"
    /\ LET out == Direct(f, ArgsOf(call))
       IN  IF out.kind = "return"
           THEN /\ next.kind = "Return"
                /\ deserialize(next.val.vals[1].b) = [ok |-> TRUE, val |-> out.val]
           ELSE /\ next.kind = "Error"
                /\ next.val = PyStr(out.val.msg)

\* The records are pairs, each the Call record of an invocation and the
\* record of that invocation's outcome; a last Call record may be alone.
InInvocationOrder(f, recs) ==
    \A k \in 1..Len(recs) :
        IF k % 2 = 1
        THEN recs[k].kind = "Call" /\ (k < Len(recs) => Answers(f, recs[k], recs[k + 1]))
        ELSE recs[k].kind \in {"Return", "Error"}

\* The invocation in inv has put its records after those that were there.
OwnRecordsLast(recs, prev) ==
    /\ Len(recs) = Len(prev) + Len(inv.log)
    /\ SubSeq(recs, 1, Len(prev)) = prev
    /\ Len(inv.log) >= 1 =>
          /\ recs[Len(prev) + 1].kind = "Call"
          /\ ArgsOf(recs[Len(prev) + 1]) = inv.args
    /\ Len(inv.log) = 2 => Answers(inv.f, recs[Len(prev) + 1], recs[Len(prev) + 2])

\* C29: with the invocations of a wrapper made one after the other, the
\* records are in the file in invocation order: those of an invocation come
\* after all that were there, its Call record carries its arguments and the
\* record after it its result or its fault (stated for the sessions in which
\* no I/O fails).
C29_InvocationOrder ==
    faults = 0 =>
        /\ \A f \in FuncIds : InInvocationOrder(f, RecordsOf(LogFileOf(f).data))
        /\ (inv.pc \in {"exec", "done"} /\ inv.captured) =>
              OwnRecordsLast(RecordsOf(LogFileOf(inv.f).data), RecordsOf(inv.before.data))

\* C29's case: double(1) and then double(5) were captured through one
\* wrapper.
C29_Case ==
    /\ Finished
    /\ faults = 0
    /\ inv.f = "double"
    /\ inv.n = 2
    /\ inv.args = <<PyInt(5)>>
    /\ Len(inv.log) = 2
    /\ Len(RecordsOf(LogFileOf("double").data)) = 4
    /\ ArgsOf(RecordsOf(LogFileOf("double").data)[1]) = <<PyInt(1)>>

\* The path without its trailing ".log".
Stem(log_file_path) ==
    IF Len(log_file_path) >= 4
       /\ SubSeq(log_file_path, Len(log_file_path) - 3, Len(log_file_path)) = C_dotlog
    THEN SubSeq(log_file_path, 1, Len(log_file_path) - 4)
    ELSE log_file_path

\* The text after the last "/".
RECURSIVE FinalSegment(_)
FinalSegment(path) ==
    IF \E i \in 1..Len(path) : path[i] = "/" THEN FinalSegment(Tail(path)) ELSE path

\* The position of the first "." of a text, 0 when it has none.
FirstDot(text) ==
    IF \E i \in 1..Len(text) : text[i] = "."
    THEN CHOOSE i \in 1..Len(text) : text[i] = "." /\ \A j \in 1..(i - 1) : text[j] # "."
    ELSE 0

\* The parse as stated: the namespace is the text before the first "." of
\* the final segment of the stem, the name all the text after it.
ParseAtFirstDot(log_file_path) ==
    LET segment == FinalSegment(Stem(log_file_path))
        dot == FirstDot(segment)
    IN  [ok |-> dot # 0,
         module_name |-> SubSeq(segment, 1, dot - 1),
         func_name |-> SubSeq(segment, dot + 1, Len(segment))]

\* C30: load_function takes a path apart by removing the trailing ".log",
\* taking the final segment and splitting it at its first ".", also when
\* the segment has more than one "." or holds ".log" before its end.
C30_SplitAtFirstDot ==
    \A p \in ReplayPaths : SuiteParsed(p) => ParseNames(p, <<>>) = ParseAtFirstDot(p)

\* C30's case: the suite has run on root/pkg.sub.add.log, whose final
\* segment has two dots before the suffix.
C30_Case ==
    /\ SuiteParsed(SubAddPath)
    /\ ParseAtFirstDot(SubAddPath)
          = [ok |-> TRUE, module_name |-> C_pkg, func_name |-> C_sub \o <<".">> \o C_add]

(***************************************************************************)
(* C31..C36.                                                               *)
(***************************************************************************)
\* C31: no handle on a log file is open between operations: after every
\* step of the wrapper (the append of the Call record, with func about to
\* run; the append of the Return or Error record) and of the suite (its
\* reads of the file), whether open() failed, a line did not decode or
\* nothing failed, the set of open handles is empty.
C31_NoOpenHandle == handles = {}

\* C31's case: records were appended to double's file, and the suite has
\* read it and met a line that does not decode.
C31_Case ==
    /\ suite.pc = "raised"
    /\ suite.paths = <<DoublePath>>
    /\ fs[DoublePath].exists
    /\ loadLog(fs[DoublePath]) # <<>>
    /\ DecodeRaises(fs[DoublePath])

\* The Call records among the records of a file.
CallsIn(kinds) == {i \in 1..Len(kinds) : kinds[i] = "Call"}

CountdownPath == get_log_file_path("countdown")

\* C32: with a wrapped function that calls itself through its wrapper, once
\* the outermost call is over and no append has failed, the log file is a
\* sequence of Call records each immediately followed by its Return or
\* Error record, and it holds at most 2 Call records, the nested
\* invocations counted with the others.
C32_Reentrancy ==
    (Quiet /\ faults = 0)
        => /\ Pairs(Units(fs[CountdownPath].data))
           /\ Cardinality(CallsIn(Units(fs[CountdownPath].data))) <= Budget

\* C32's case: countdown(2) is over: the invocations 1 and 2 were captured,
\* the third, nested in the second, was past the budget.
C32_Case ==
    /\ Quiet /\ faults = 0
    /\ inv.pc = "done" /\ inv.f = "countdown" /\ inv.args = <<PyInt(2)>> /\ inv.n = 1
    /\ wrappers["countdown"].count = Budget + 1
    /\ Units(fs[CountdownPath].data) = <<"Call", "Call", "Return", "Return">>

\* The append of the captured invocation's Call record failed.
CallAppendFailed ==
    /\ Finished /\ inv.captured
    /\ inv.log # <<>>
    /\ inv.log[1].op = "logCall" /\ inv.log[1].io = "fail"

\* C33: when the append of an invocation's Call record has failed, the
\* invocation appends no Return and no Error record either: the log file
\* is after the invocation what it was before it.
C33_NoOrphanTerminal == CallAppendFailed => LogFileOf(inv.f) = inv.before

\* C33's case: the first invocation of a wrapper, whose Call append
\* failed, is over and the file holds one record, a Return or an Error
\* record.
C33_Case ==
    /\ CallAppendFailed
    /\ inv.before = NoFile
    /\ Len(inv.log) = 2 /\ inv.log[2].io = "ok"
    /\ Units(LogFileOf(inv.f).data) \in {<<"Return">>, <<"Error">>}

\* The calls of the wrapper made so far: the thread and the call's number.
Calls == {c \in Threads \X (1..MaxCalls) : c[2] <= Len(threads[c[1]].handed)}

HandedTo(c) == threads[c[1]].handed[c[2]]

\* C34: with two threads calling one wrapper, the values increment handed
\* out are distinct, one per call, and at most 2 of the calls are within
\* the budget, that is, captured.
C34_NoLostUpdate ==
    /\ \A c, d \in Calls : c # d => HandedTo(c) # HandedTo(d)
    /\ Cardinality({c \in Calls : ~OverBudget(HandedTo(c))}) <= Budget

\* C34's case: both threads have called the wrapper, each more than once,
\* and the calls are over.
C34_Case ==
    /\ \A t \in Threads : threads[t].pc = "idle" /\ Len(threads[t].handed) = MaxCalls
    /\ \E c, d \in Calls : c[1] # d[1] /\ HandedTo(c) = HandedTo(d)
    /\ Cardinality({c \in Calls : ~OverBudget(HandedTo(c))}) > Budget
    /\ Cardinality(CallsIn(Units(fs[DoublePath].data))) > Budget

\* C35: what decorate returned for f stays what it is in every later step,
\* a change of the flag included; a call of a wrapper within its budget is
\* captured and a call of an undecorated result appends nothing, whatever
\* the flag is when the call is made.
C35_FixedAtDecorate ==
    [][\A f \in FuncIds, invocation \in {inv'} :
          /\ wrappers[f].kind # "none" => wrappers'[f].kind = wrappers[f].kind
          /\ (wrappers[f].kind = "wrapper" /\ Invokes(f, invocation)
                  /\ ~OverBudget(invocation.n))
                => invocation.captured
          /\ (wrappers[f].kind = "plain" /\ Invokes(f, invocation))
                => invocation.pc = "plain" /\ ~invocation.captured /\ fs' = fs]_vars

\* C35's case: a wrapper made with the flag on is in its second invocation,
\* entered with the flag off (the flag is not assigned during an
\* invocation), and has appended the Call record.
C35_Case ==
    /\ inv.pc = "exec" /\ inv.captured /\ inv.n = Budget
    /\ wrappers[inv.f].kind = "wrapper"
    /\ ~debug
    /\ AppendsOk(inv)
    /\ LogFileOf(inv.f) # inv.before

\* The iteration the suite is about to make calls load_function and gets
\* None: the records unpack (line 57) and the callable does not resolve.
LoadsNone ==
    /\ suite.pc = "running"
    /\ suite.i <= Len(suite.paths)
    /\ createTestCase(fs[suite.paths[suite.i]], suite.paths[suite.i], live).kind = "skip"

\* C36: an iteration of the suite in which load_function returns None
\* leaves sys.modules with the entries it had.
C36_RegistryUnchanged == [][LoadsNone => sys_modules' = sys_modules]_vars

\* C36's case: module m raised while load_function executed it, the suite
\* has counted a Skip, and m is in sys.modules.
C36_Case ==
    /\ suite.paths = <<DoublePath>> /\ suite.i = 2 /\ suite.skipped = 1
    /\ live = "v3"
    /\ sys_modules = {C_m}

====
